---- MODULE Spec2Model ----
(***************************************************************************)
(* Job lifecycle, fallback orchestrator and job stores of the AI chat      *)
(* assistant backend (backend/utils/message_service.py,                    *)
(* backend/services/file_service.py, backend/services/ai_processor.py,     *)
(* backend/services/ai_service.py, backend/routes/*.py).                   *)
(*                                                                         *)
(* Texts are sequences of strings: a provider output and a user message    *)
(* are sequences of one-character strings, the fixed sentences of the      *)
(* program are sequences of phrases.  Everything runs on one asyncio event *)
(* loop: an action is the code that runs between two suspension points     *)
(* (asyncio.sleep); the provider calls (requests.post,                     *)
(* model.generate_content) are blocking calls and do not suspend.          *)
(***************************************************************************)
EXTENDS Integers, Sequences, FiniteSets, TLC

VARIABLES
    cfg,            \* Config: USE_DUMMY_AI, GEMINI_API_KEY, DEEPAI_API_KEY
    call,           \* a direct call of the orchestrator (routes/test.py, unit tests)
    jobs,           \* the MessageJob / FileJob objects ever allocated, by job id
    message_jobs,   \* keys of MessageService.message_jobs
    file_jobs,      \* keys of FileService.file_jobs
    tasks,          \* the background task of each job: its position and locals
    uploads,        \* stored files present in UPLOAD_DIRECTORY (by job id)
    clock,          \* datetime.utcnow(): a logical clock that ticks between two creations
    written,        \* history: the values assigned to each job's status, in order
    removed,        \* history: per job id, whether delete or clear took it out of its store
    raised,         \* history: per job id, the detail of the unexpected exception raised in its task
    response,       \* the answer to the most recent request
    released,       \* history: the job ids whose stored file _cleanup_file was called for
    ctx,            \* a direct call of the context optimizer
    keys,           \* the values of Config.GEMINI_API_KEY and Config.DEEPAI_API_KEY
    probes          \* the invocations of the /test routes: position and locals

vars == <<cfg, call, jobs, message_jobs, file_jobs, tasks, uploads, clock,
          written, removed, raised, response, released, ctx, keys, probes>>

(***************************************************************************)
(* Bounds of the model.                                                    *)
(***************************************************************************)
MaxJobs == 2

(***************************************************************************)
(* Program constants.                                                      *)
(***************************************************************************)
GEMINI_MAX_RETRIES == 2
DEEPAI_MAX_RETRIES == 2
MAX_FILE_SIZE == 10 * 1024 * 1024
ALLOWED_FILE_TYPES == {".txt", ".pdf", ".docx", ".jpg", ".jpeg", ".png", ".csv", ".json"}

\* Optional[str]: None is the empty tuple, a set value t is <<t>>
None == <<>>
Some(t) == <<t>>

(***************************************************************************)
(* Text helpers: str.strip, str.lower, the `in` substring test.            *)
(***************************************************************************)
IsSpace(c) == c \in {" ", "\n", "\t"}

RECURSIVE LStrip(_)
LStrip(s) ==
    IF s = <<>> THEN s
    ELSE IF IsSpace(Head(s)) THEN LStrip(Tail(s)) ELSE s

RECURSIVE RStrip(_)
RStrip(s) ==
    IF s = <<>> THEN s
    ELSE IF IsSpace(s[Len(s)]) THEN RStrip(SubSeq(s, 1, Len(s) - 1)) ELSE s

Strip(s) == RStrip(LStrip(s))

Uppers == <<"A", "B", "C", "D", "E", "F", "G", "H", "I", "J", "K", "L", "M",
    "N", "O", "P", "Q", "R", "S", "T", "U", "V", "W", "X", "Y", "Z">>
Lowers == <<"a", "b", "c", "d", "e", "f", "g", "h", "i", "j", "k", "l", "m",
    "n", "o", "p", "q", "r", "s", "t", "u", "v", "w", "x", "y", "z">>

IsUpper(c) == \E i \in 1..Len(Uppers) : Uppers[i] = c
IsLower(c) == \E i \in 1..Len(Lowers) : Lowers[i] = c
IsAlpha(c) == IsUpper(c) \/ IsLower(c)
IsDigit(c) == c \in {"0", "1", "2", "3", "4", "5", "6", "7", "8", "9"}

LowerChar(c) ==
    IF IsUpper(c) THEN Lowers[CHOOSE i \in 1..Len(Uppers) : Uppers[i] = c] ELSE c

UpperChar(c) ==
    IF IsLower(c) THEN Uppers[CHOOSE i \in 1..Len(Lowers) : Lowers[i] = c] ELSE c

RECURSIVE Lower(_)
Lower(s) == IF s = <<>> THEN <<>> ELSE <<LowerChar(Head(s))>> \o Lower(Tail(s))

\* str.title(): a letter that follows a non-letter is upper-cased, every other
\* letter lower-cased
RECURSIVE TitleFrom(_, _)
TitleFrom(s, i) ==
    IF i > Len(s) THEN <<>>
    ELSE <<IF i = 1 \/ ~IsAlpha(s[i - 1]) THEN UpperChar(s[i]) ELSE LowerChar(s[i])>>
             \o TitleFrom(s, i + 1)

Title(s) == TitleFrom(s, 1)

HasSub(s, t) ==
    \E i \in 1..(Len(s) - Len(t) + 1) : SubSeq(s, i, i + Len(t) - 1) = t

Marker == "technical difficulties"

ContainsPhrase(text, phrase) == \E i \in 1..Len(text) : text[i] = phrase

(***************************************************************************)
(* Inputs.                                                                 *)
(***************************************************************************)
\* message texts a client may post (before the route strips them)
RawMessages ==
    { <<"H", "i">>, <<" ", "o", "k", "?">>, <<" ">> }

\* uploads: filename as <<stem, suffix>>, the size the upload object
\* reports and the number of bytes read from it
Uploads ==
    { [filename |-> <<"report", ".PDF">>, size |-> 1024, content_len |-> 1024],
      [filename |-> <<"data", ".csv">>,   size |-> 100,  content_len |-> 100],
      [filename |-> <<"tool", ".exe">>,   size |-> 100,  content_len |-> 100] }

\* what one provider attempt can end in
Outputs == { <<"A">>, <<" ", "A", " ">>, <<" ">> }

Outcomes ==
    [kind : {"transport", "status", "no_output"}, output : {<<>>}]
        \cup [kind : {"ok"}, output : Outputs]

Configs == [dummy : BOOLEAN, gemini : BOOLEAN, deepai : BOOLEAN]

(***************************************************************************)
(* Requests handed to the orchestrator.                                    *)
(***************************************************************************)
MessageRequest(user_message, chat_history) ==
    [flow |-> "message", user_message |-> user_message, chat_history |-> chat_history,
     filename |-> <<>>, file_type |-> "", file_size |-> 0]

FileRequest(filename, file_type, file_size) ==
    [flow |-> "file", user_message |-> <<>>, chat_history |-> <<>>,
     filename |-> filename, file_type |-> file_type, file_size |-> file_size]

(***************************************************************************)
(* AIProcessor: the canned texts.                                          *)
(***************************************************************************)
_get_dummy_response(user_message) ==
    IF HasSub(Lower(user_message), <<"h", "e", "l", "l", "o">>)
          \/ HasSub(Lower(user_message), <<"h", "i">>)
    THEN <<"Hello! Nice to meet you. How can I assist you today?">>
    ELSE IF HasSub(Lower(user_message), <<"h", "e", "l", "p">>)
    THEN <<"I'm here to help! Feel free to ask me anything you'd like to know.">>
    ELSE IF HasSub(user_message, <<"?">>)
    THEN <<"That's a great question about '">> \o user_message
             \o <<"'. Let me provide some insights...">>
    ELSE LET responses ==
               << <<"I understand you mentioned: '">> \o user_message
                      \o <<"'. That's interesting!">>,
                  <<"Thank you for sharing '">> \o user_message
                      \o <<"' with me. How can I help you with that?">>,
                  <<"Regarding your message about '">> \o user_message
                      \o <<"', I'd be happy to assist you.">> >>
         IN  responses[(Len(user_message) % 3) + 1]

_get_dummy_file_analysis(filename, file_type, file_size) ==
    IF file_type \in {".txt", ".pdf", ".docx"}
    THEN <<"Document Analysis: '">> \o filename
             \o <<"' (", ToString(file_size), " bytes) appears to be a text document.">>
    ELSE IF file_type \in {".jpg", ".jpeg", ".png"}
    THEN <<"Image Analysis: '">> \o filename
             \o <<"' (", ToString(file_size), " bytes) is an image file.">>
    ELSE IF file_type \in {".csv", ".json"}
    THEN <<"Data Analysis: '">> \o filename
             \o <<"' (", ToString(file_size), " bytes) contains structured data.">>
    ELSE <<"File Analysis: '">> \o filename
             \o <<"' (", ToString(file_size), " bytes) has been processed.">>

_get_friendly_fallback_response(user_message) ==
    <<"I apologize, but I'm currently experiencing ", Marker,
      " connecting to my AI services. Your message has been received",
      " please feel free to try again in a moment",
      " Thank you for your patience!">>

_get_friendly_file_fallback(filename, file_type, file_size) ==
    LET size_desc == IF file_size < 1024 THEN "small"
                     ELSE IF file_size < 1024 * 1024 THEN "medium" ELSE "large"
    IN  <<"I've received your ", file_type, " file '">> \o filename
            \o <<"' (", size_desc, " size: ", ToString(file_size), " bytes)",
                 " Unfortunately, I'm currently experiencing ", Marker,
                 " with my AI analysis services",
                 " Please try uploading again in a moment",
                 " Thank you for your patience!">>

(***************************************************************************)
(* An orchestrator call, as a coroutine.  phase is where it stands:        *)
(*   "ux_delay"  suspended in asyncio.sleep(DEFAULT_PROCESSING_TIME),      *)
(*   "backoff"   suspended in asyncio.sleep(1) of provider's retry loop,   *)
(*               about to run iteration `attempt` (0-based),               *)
(*   "returned"  returned result to its caller,                            *)
(*   "raised"    an exception is propagating out of the current function.  *)
(* log is the history of the provider attempts made, in order: the         *)
(* provider, the attempt's number, whether it was good and the text the    *)
(* adapter returned for it.                                                *)
(***************************************************************************)
NoCall ==
    [req |-> MessageRequest(<<>>, <<>>), phase |-> "idle", provider |-> "",
     attempt |-> 0, log |-> <<>>, result |-> None]

\* the call enters get_ai_response / get_file_analysis and reaches its first await
BeginCall(req) == [NoCall EXCEPT !.req = req, !.phase = "ux_delay"]

Return(o, text) == [o EXCEPT !.phase = "returned", !.result = Some(text)]

\* variant: the attempt counter never reaches the limit, a failed attempt is
\* always followed by another one
RetryIteration_Forever(o, provider, max_retries, good, text) ==
    IF good
    THEN [o EXCEPT !.phase = "returned", !.result = Some(text), !.provider = provider]
    ELSE [o EXCEPT !.phase = "backoff", !.provider = provider,
                   !.attempt = (o.attempt + 1) % max_retries]

\* one iteration of `for attempt in range(max_retries)`: the try body ends with
\* `return text` when the attempt is good; the except clause re-raises on the
\* last attempt and sleeps before the next iteration otherwise
RetryIteration(o, provider, max_retries, good, text) ==
    LET lg == Append(o.log, [provider |-> provider, attempt |-> o.attempt + 1,
                             ok |-> good, text |-> IF good THEN text ELSE <<>>])
    IN  IF good
        THEN [o EXCEPT !.phase = "returned", !.result = Some(text), !.log = lg,
                       !.provider = provider]
        ELSE IF o.attempt = max_retries - 1
        THEN [o EXCEPT !.phase = "raised", !.log = lg, !.provider = provider]
        ELSE [o EXCEPT !.phase = "backoff", !.log = lg, !.provider = provider,
                       !.attempt = o.attempt + 1]

\* entering a retry function: range(max_retries) starts at 0
Enter(o) == [o EXCEPT !.attempt = 0]

\* response.text raises unless the reply carries text
GeminiGood(out) == out.kind = "ok"

\* response.status_code == 200; result.get('output', '')
DeepAIGood(out) == out.kind \in {"ok", "no_output"}
DeepAIOutput(out) == IF out.kind = "ok" THEN out.output ELSE <<>>

\* variant: Gemini is given a single attempt
get_gemini_response_no_retry(o, out) ==
    RetryIteration(o, "gemini", 1, GeminiGood(out), Strip(out.output))

get_gemini_response_with_retry(o, out) ==
    RetryIteration(o, "gemini", GEMINI_MAX_RETRIES, GeminiGood(out), Strip(out.output))

get_deepai_response(o, out) ==
    RetryIteration(o, "deepai", DEEPAI_MAX_RETRIES, DeepAIGood(out),
                   Strip(DeepAIOutput(out)))

get_gemini_file_analysis_with_retry(o, out) ==
    RetryIteration(o, "gemini", GEMINI_MAX_RETRIES, GeminiGood(out),
                   <<"[file] ">> \o Strip(out.output))

get_deepai_file_analysis(o, out) ==
    RetryIteration(o, "deepai", DEEPAI_MAX_RETRIES, DeepAIGood(out),
                   <<"[file] ">> \o Strip(DeepAIOutput(out)))

(***************************************************************************)
(* AIProcessor.get_ai_response, resumed at o's suspension point under      *)
(* configuration c; outG and outD are what a Gemini and a DeepAI attempt   *)
(* made during this run end in (a run makes at most one of each).          *)
(***************************************************************************)
\* variant: exhausting the providers raises instead of returning the apology
AiFallback_Raise(o) == [o EXCEPT !.phase = "raised"]

\* lines 39-40: the final fallback
AiFallback(o) ==
    Return(o, _get_friendly_fallback_response(o.req.user_message))

\* variant: the DeepAI call is not wrapped in try/except
AiAfterDeepAI_NoCatch(o) == o

\* lines 36-40: `except Exception` around the DeepAI call, then the fallback
AiAfterDeepAI(o) ==
    IF o.phase = "raised" THEN AiFallback(o) ELSE o

\* lines 31-40
AiDeepAIBranch(o, c, outD) ==
    IF c.deepai
    THEN AiAfterDeepAI(get_deepai_response(Enter(o), outD))
    ELSE AiFallback(o)

\* variant: the Gemini result is not returned and the DeepAI branch always runs
AiAfterGemini_FallThrough(o, c, outD) == AiDeepAIBranch(o, c, outD)

\* lines 28-40: `except Exception` around the Gemini call, then the DeepAI branch
AiAfterGemini(o, c, outD) ==
    IF o.phase = "raised" THEN AiDeepAIBranch(o, c, outD) ELSE o

\* variant: Gemini is called without looking at GEMINI_API_KEY
AiGeminiBranch_NoKeyCheck(o, c, outG, outD) ==
    AiAfterGemini(get_gemini_response_with_retry(Enter(o), outG), c, outD)

\* lines 23-40
AiGeminiBranch(o, c, outG, outD) ==
    IF c.gemini
    THEN AiAfterGemini(get_gemini_response_with_retry(Enter(o), outG), c, outD)
    ELSE AiDeepAIBranch(o, c, outD)

\* variant: the dummy flag is ignored
get_ai_response_NoDummy(o, c, outG, outD) ==
    CASE o.phase = "ux_delay" -> AiGeminiBranch(o, c, outG, outD)
      [] o.phase = "backoff" /\ o.provider = "gemini" ->
            AiAfterGemini(get_gemini_response_with_retry(o, outG), c, outD)
      [] o.phase = "backoff" /\ o.provider = "deepai" ->
            AiAfterDeepAI(get_deepai_response(o, outD))
      [] OTHER -> o

get_ai_response(o, c, outG, outD) ==
    CASE o.phase = "ux_delay" ->
            IF c.dummy
            THEN Return(o, _get_dummy_response(o.req.user_message))
            ELSE AiGeminiBranch(o, c, outG, outD)
      [] o.phase = "backoff" /\ o.provider = "gemini" ->
            AiAfterGemini(get_gemini_response_with_retry(o, outG), c, outD)
      [] o.phase = "backoff" /\ o.provider = "deepai" ->
            AiAfterDeepAI(get_deepai_response(o, outD))
      [] OTHER -> o

(***************************************************************************)
(* AIProcessor.get_file_analysis, resumed the same way.                    *)
(***************************************************************************)
\* variant: the file flow answers with the message flow's apology
FileFallback_MessageText(o) ==
    Return(o, _get_friendly_fallback_response(o.req.user_message))

\* lines 67-68: the final fallback
FileFallback(o) ==
    Return(o, _get_friendly_file_fallback(o.req.filename, o.req.file_type,
                                          o.req.file_size))

FileAfterDeepAI(o) ==
    IF o.phase = "raised" THEN FileFallback(o) ELSE o

FileDeepAIBranch(o, c, outD) ==
    IF c.deepai
    THEN FileAfterDeepAI(get_deepai_file_analysis(Enter(o), outD))
    ELSE FileFallback(o)

FileAfterGemini(o, c, outD) ==
    IF o.phase = "raised" THEN FileDeepAIBranch(o, c, outD) ELSE o

FileGeminiBranch(o, c, outG, outD) ==
    IF c.gemini
    THEN FileAfterGemini(get_gemini_file_analysis_with_retry(Enter(o), outG), c, outD)
    ELSE FileDeepAIBranch(o, c, outD)

get_file_analysis(o, c, outG, outD) ==
    CASE o.phase = "ux_delay" ->
            IF c.dummy
            THEN Return(o, _get_dummy_file_analysis(o.req.filename, o.req.file_type,
                                                    o.req.file_size))
            ELSE FileGeminiBranch(o, c, outG, outD)
      [] o.phase = "backoff" /\ o.provider = "gemini" ->
            FileAfterGemini(get_gemini_file_analysis_with_retry(o, outG), c, outD)
      [] o.phase = "backoff" /\ o.provider = "deepai" ->
            FileAfterDeepAI(get_deepai_file_analysis(o, outD))
      [] OTHER -> o

\* str(e) of the exception a retry function re-raises on its last attempt
ProviderError(o) == <<o.provider, " request failed">>

\* the coroutine is suspended and can be resumed
Suspended(o) == o.phase \in {"ux_delay", "backoff"}

Resume(o, c, outG, outD) ==
    IF o.req.flow = "message"
    THEN get_ai_response(o, c, outG, outD)
    ELSE get_file_analysis(o, c, outG, outD)

(***************************************************************************)
(* Job objects and the two stores.                                         *)
(***************************************************************************)
\* the slots of job objects: one more than Spec fills, for the conversations
\* of SpecChat
MaxChatJobs == MaxJobs + 1

JobIds == 1..MaxChatJobs

\* a slot no job object was allocated in yet
NoJob ==
    [kind |-> "none", user_message |-> <<>>, original_filename |-> <<>>,
     file_type |-> "", file_size |-> 0, status |-> "none", result |-> None,
     created_at |-> 0, completed_at |-> None]

MessageJob(user_message, now) ==
    [NoJob EXCEPT !.kind = "message", !.user_message = user_message,
                  !.status = "pending", !.created_at = now]

FileJob(original_filename, file_type, file_size, now) ==
    [NoJob EXCEPT !.kind = "file", !.original_filename = original_filename,
                  !.file_type = file_type, !.file_size = file_size,
                  !.status = "pending", !.created_at = now]

Allocated == {j \in JobIds : jobs[j].kind # "none"}

\* uuid.uuid4(): an id no job had before
FreshId == Cardinality(Allocated) + 1

\* fewer than MaxJobs jobs were created so far
HasRoom == Cardinality(Allocated) < MaxJobs

Stored == message_jobs \cup file_jobs

Terminal(status) == status \in {"done", "error"}

\* the task of a job: "none", "scheduled" (asyncio.create_task, not started),
\* "running" (suspended inside its orchestrator call), "finished"
NoTask == [pc |-> "none", orch |-> NoCall]
\* variant: create returns without asyncio.create_task
ScheduledTask_NotScheduled == [pc |-> "none", orch |-> NoCall]

ScheduledTask == [pc |-> "scheduled", orch |-> NoCall]
RunningTask(o) == [pc |-> "running", orch |-> o]
FinishedTask == [pc |-> "finished", orch |-> NoCall]
CrashedTask == [pc |-> "crashed", orch |-> NoCall]

\* variant: the task is queued again when it ends
TaskEnd_Requeued == ScheduledTask

\* the coroutine ends after its last statement
TaskEnd == FinishedTask

(***************************************************************************)
(* MessageService._build_chat_history: the stored Done jobs other than     *)
(* exclude_job_id (messages) and the stored Done file jobs, sorted by      *)
(* created_at.  An item is a copy of the job's fields at that moment; a    *)
(* file item has no user_message and no ai_response key, which its readers *)
(* take as "".                                                             *)
(***************************************************************************)
HistoryItem(job) ==
    IF job.kind = "message"
    THEN [type |-> "message", user_message |-> job.user_message,
          ai_response |-> job.result[1], status |-> "done",
          created_at |-> job.created_at]
    ELSE [type |-> "file", user_message |-> <<>>, ai_response |-> <<>>,
          original_filename |-> job.original_filename, file_type |-> job.file_type,
          file_size |-> job.file_size, analysis_result |-> job.result[1],
          status |-> "done", created_at |-> job.created_at]

\* variant: sorted(..., reverse=True), the newest job first
RECURSIVE SortByCreated_NewestFirst(_)
SortByCreated_NewestFirst(S) ==
    IF S = {} THEN <<>>
    ELSE LET first == CHOOSE j \in S : \A k \in S : jobs[j].created_at >= jobs[k].created_at
         IN  <<first>> \o SortByCreated_NewestFirst(S \ {first})

RECURSIVE SortByCreated(_)
SortByCreated(S) ==
    IF S = {} THEN <<>>
    ELSE LET first == CHOOSE j \in S : \A k \in S : jobs[j].created_at <= jobs[k].created_at
         IN  <<first>> \o SortByCreated(S \ {first})

HistoryMessages(exclude_job_id) ==
    {j \in message_jobs : j # exclude_job_id /\ jobs[j].status = "done"}

\* variant: file jobs are left out of the history
HistoryFiles_Omitted == {}

HistoryFiles == {j \in file_jobs : jobs[j].status = "done"}

_build_chat_history(exclude_job_id) ==
    LET sorted == SortByCreated(HistoryMessages(exclude_job_id) \cup HistoryFiles)
    IN  [i \in 1..Len(sorted) |-> HistoryItem(jobs[sorted[i]])]

(***************************************************************************)
(* Writes to a job object.                                                 *)
(***************************************************************************)
\* variant: the success writeback leaves completed_at unset
SetDone_NoCompletedAt(job, text, now) ==
    [job EXCEPT !.result = Some(text), !.status = "done"]

\* lines 69-71 / file_service 105-107
SetDone(job, text, now) ==
    [job EXCEPT !.result = Some(text), !.status = "done", !.completed_at = Some(now)]

\* lines 76-78 / file_service 115-117
SetError(job, text, now) ==
    [job EXCEPT !.status = "error", !.result = Some(text), !.completed_at = Some(now)]

\* variant: the error text leaves the exception detail out
ErrorText_NoDetail(kind, detail) ==
    IF kind = "message" THEN <<"Error processing message: ">>
    ELSE <<"Error processing file: ">>

\* f"Error processing message: {str(e)}" / f"Error processing file: {str(e)}"
ErrorText(kind, detail) ==
    IF kind = "message" THEN <<"Error processing message: ">> \o detail
    ELSE <<"Error processing file: ">> \o detail

(***************************************************************************)
(* Routes: POST /messages, POST /files.                                    *)
(***************************************************************************)
\* routes/messages.py line 19: `if not request.message.strip()`
\* variant: every message is accepted
MessageAccepted_Any(message) == TRUE

MessageAccepted(message) == Strip(message) # <<>>

LowerSuffix(suffix) ==
    CASE suffix = ".PDF" -> ".pdf"
      [] OTHER -> suffix

\* Path(filename).suffix.lower()
FileExtension(filename) ==
    IF Len(filename) >= 2 THEN LowerSuffix(filename[Len(filename)]) ELSE ""

\* variant: the extension is not checked
validate_file_AnyType(file) ==
    IF file.size # 0 /\ file.size > MAX_FILE_SIZE
    THEN Some("File size exceeds maximum allowed size")
    ELSE IF file.filename # <<>> THEN None
    ELSE Some("Filename is required")

\* FileService.validate_file: None, or the error message
validate_file(file) ==
    IF file.size # 0 /\ file.size > MAX_FILE_SIZE
    THEN Some("File size exceeds maximum allowed size")
    ELSE IF file.filename # <<>>
    THEN IF FileExtension(file.filename) \notin ALLOWED_FILE_TYPES
         THEN Some("File type not supported")
         ELSE None
    ELSE Some("Filename is required")

\* the answer to a request: its status code and, for an error answer, the
\* handler and the job id it answers
NoResponse == [status |-> 0, op |-> "", job_id |-> 0]
Success == [status |-> 200, op |-> "", job_id |-> 0]
Failure(status, op, job_id) == [status |-> status, op |-> op, job_id |-> job_id]

\* create_message_job (route) and MessageService.create_message_job.  The
\* HTTPException(400) of line 20 is raised inside the try block and caught by
\* `except Exception` (line 27), which answers 500.
CreateMessageJob(message) ==
    /\ IF MessageAccepted(message)
       THEN /\ FreshId \in JobIds
            /\ LET job_id == FreshId IN
                 /\ jobs' = [jobs EXCEPT ![job_id] = MessageJob(Strip(message), clock)]
                 /\ message_jobs' = message_jobs \cup {job_id}
                 /\ tasks' = [tasks EXCEPT ![job_id] = ScheduledTask]
                 /\ written' = [written EXCEPT ![job_id] = <<"pending">>]
            /\ clock' = clock + 1
            /\ response' = Success
       ELSE /\ response' = Failure(500, "create_message_job", 0)
            /\ UNCHANGED <<jobs, message_jobs, tasks, written, clock>>
    /\ UNCHANGED <<cfg, keys, probes, call, file_jobs, uploads, removed, raised, released, ctx>>

\* upload_file: validate_file answers 400 before anything is saved; otherwise
\* save_file, then FileService.create_file_job
UploadFile(file) ==
    /\ IF validate_file(file) = None
       THEN /\ FreshId \in JobIds
            /\ LET job_id == FreshId IN
                 /\ uploads' = uploads \cup {job_id}
                 /\ jobs' = [jobs EXCEPT ![job_id] =
                                FileJob(file.filename, FileExtension(file.filename),
                                        file.content_len, clock)]
                 /\ file_jobs' = file_jobs \cup {job_id}
                 /\ tasks' = [tasks EXCEPT ![job_id] = ScheduledTask]
                 /\ written' = [written EXCEPT ![job_id] = <<"pending">>]
            /\ clock' = clock + 1
            /\ response' = Success
       ELSE /\ response' = Failure(400, "upload_file", 0)
            /\ UNCHANGED <<jobs, file_jobs, tasks, written, clock, uploads>>
    /\ UNCHANGED <<cfg, keys, probes, call, message_jobs, removed, raised, released, ctx>>

(***************************************************************************)
(* The background tasks.                                                   *)
(***************************************************************************)
\* a job object that neither a store nor a live task refers to any more
Freed(job) == [NoJob EXCEPT !.kind = job.kind, !.status = "freed"]

Release(js, job_id, store) ==
    IF job_id \in store THEN js ELSE [js EXCEPT ![job_id] = Freed(@)]

\* message_service line 75 / file_service line 114: `if job_id in <store>`
HandlerGuard(job_id, store) == job_id \in store

\* variant: the success writeback stores the job under its id again
StoreAfterWriteback_Reinsert(store, job_id) == store \cup {job_id}

\* the store after the success writeback: the task writes to the object it
\* holds and never to the dict
StoreAfterWriteback(store, job_id) == store

\* variant: the task leaves the status alone when it starts
StatusAtStart_Skipped == "pending"

\* the status the task gives its job before it builds the context
StatusAtStart == "processing"

\* except Exception: lines 73-78 / 112-117, entered with the job's status at
\* `status`.  store[job_id] on an absent key raises KeyError out of the task.
ExceptHandler(job_id, store, status, detail) ==
    IF HandlerGuard(job_id, store)
    THEN IF job_id \in store
         THEN /\ jobs' = [jobs EXCEPT ![job_id] =
                            SetError([@ EXCEPT !.status = status],
                                     ErrorText(jobs[job_id].kind, detail), clock)]
              /\ written' = [written EXCEPT ![job_id] = Append(@, "error")]
              /\ tasks' = [tasks EXCEPT ![job_id] = TaskEnd]
         ELSE /\ tasks' = [tasks EXCEPT ![job_id] = CrashedTask]
              /\ jobs' = Release(jobs, job_id, store)
              /\ UNCHANGED written
    ELSE /\ tasks' = [tasks EXCEPT ![job_id] = TaskEnd]
         /\ jobs' = Release(jobs, job_id, store)
         /\ UNCHANGED written

\* lines 46-51 / file_service 91-96: look the job up, return if it is gone,
\* set it to processing
TaskLookup(job_id, store) ==
    /\ tasks[job_id].pc = "scheduled"
    /\ job_id \notin store
    /\ tasks' = [tasks EXCEPT ![job_id] = TaskEnd]
    /\ jobs' = Release(jobs, job_id, store)
    /\ UNCHANGED written

\* process_message_job_background, lines 45-66: from the start of the task to
\* the first await (the UX delay inside get_ai_response)
StartMessageTask(job_id) ==
    /\ jobs[job_id].kind = "message"
    /\ \/ TaskLookup(job_id, message_jobs)
       \/ /\ tasks[job_id].pc = "scheduled"
          /\ job_id \in message_jobs
          /\ jobs' = [jobs EXCEPT ![job_id].status = StatusAtStart]
          /\ written' = [written EXCEPT ![job_id] = Append(@, StatusAtStart)]
          /\ tasks' = [tasks EXCEPT ![job_id] =
                         RunningTask(BeginCall(
                             MessageRequest(jobs[job_id].user_message,
                                            _build_chat_history(job_id))))]
    /\ UNCHANGED <<cfg, keys, probes, call, message_jobs, file_jobs, uploads, clock, removed, raised, response, released, ctx>>

\* the same lines when an unexpected exception is raised while the context is
\* built: the status is set, then the handler runs, all before any await
FailMessageTaskAtStart(job_id, detail) ==
    /\ jobs[job_id].kind = "message"
    /\ tasks[job_id].pc = "scheduled"
    /\ job_id \in message_jobs
    /\ written' = [written EXCEPT ![job_id] = @ \o <<StatusAtStart, "error">>]
    /\ jobs' = [jobs EXCEPT ![job_id] =
                  SetError([@ EXCEPT !.status = StatusAtStart],
                           ErrorText("message", detail), clock)]
    /\ tasks' = [tasks EXCEPT ![job_id] = TaskEnd]
    /\ raised' = [raised EXCEPT ![job_id] = Some(detail)]
    /\ UNCHANGED <<cfg, keys, probes, call, message_jobs, file_jobs, uploads, clock, removed,
                   response, released, ctx>>

\* process_message_job_background, lines 66-78: the task is resumed inside
\* get_ai_response and runs to the next await or to its end
ResumeMessageTask(job_id, outG, outD) ==
    /\ tasks[job_id].pc = "running"
    /\ jobs[job_id].kind = "message"
    /\ LET o == get_ai_response(tasks[job_id].orch, cfg, outG, outD) IN
         IF o.phase = "raised"
         THEN /\ ExceptHandler(job_id, message_jobs, jobs[job_id].status, ProviderError(o))
              /\ raised' = [raised EXCEPT ![job_id] = Some(ProviderError(o))]
              /\ UNCHANGED message_jobs
         ELSE IF Suspended(o)
         THEN /\ tasks' = [tasks EXCEPT ![job_id] = RunningTask(o)]
              /\ UNCHANGED <<jobs, written, message_jobs, raised>>
         ELSE /\ message_jobs' = StoreAfterWriteback(message_jobs, job_id)
              /\ jobs' = Release([jobs EXCEPT ![job_id] = SetDone(@, o.result[1], clock)],
                                 job_id, message_jobs')
              /\ written' = [written EXCEPT ![job_id] = Append(@, "done")]
              /\ tasks' = [tasks EXCEPT ![job_id] = TaskEnd]
              /\ UNCHANGED raised
    /\ UNCHANGED <<cfg, keys, probes, call, file_jobs, uploads, clock, removed, response, released, ctx>>

\* an unexpected exception is raised in the try body when the task is resumed
FailMessageTask(job_id, detail) ==
    /\ tasks[job_id].pc = "running"
    /\ jobs[job_id].kind = "message"
    /\ ExceptHandler(job_id, message_jobs, jobs[job_id].status, detail)
    /\ raised' = [raised EXCEPT ![job_id] = Some(detail)]
    /\ UNCHANGED <<cfg, keys, probes, call, message_jobs, file_jobs, uploads, clock, removed,
                   response, released, ctx>>

\* variant: _cleanup_file without its try/except, a failing unlink raises
CleanupRaises_Propagates(unlink_fails) == unlink_fails

\* FileService._cleanup_file, lines 122-128: whether an exception leaves the
\* function; `except Exception` logs a warning and returns
CleanupRaises(unlink_fails) == FALSE

\* str(e) of a failing unlink
CleanupError == <<"Permission denied">>

\* FileService._cleanup_file: unlink the stored file if it exists; a failure is
\* logged and swallowed
_cleanup_file(files, stored, unlink_fails) ==
    IF stored \in files /\ ~unlink_fails THEN files \ {stored} ELSE files

\* process_file_job_background, lines 90-103: to the first await
StartFileTask(job_id) ==
    /\ jobs[job_id].kind = "file"
    /\ \/ TaskLookup(job_id, file_jobs)
       \/ /\ tasks[job_id].pc = "scheduled"
          /\ job_id \in file_jobs
          /\ jobs' = [jobs EXCEPT ![job_id].status = StatusAtStart]
          /\ written' = [written EXCEPT ![job_id] = Append(@, StatusAtStart)]
          /\ tasks' = [tasks EXCEPT ![job_id] =
                         RunningTask(BeginCall(
                             FileRequest(jobs[job_id].original_filename,
                                         jobs[job_id].file_type,
                                         jobs[job_id].file_size)))]
    /\ UNCHANGED <<cfg, keys, probes, call, message_jobs, file_jobs, uploads, clock, removed, raised, response, released, ctx>>

FailFileTaskAtStart(job_id, detail) ==
    /\ jobs[job_id].kind = "file"
    /\ tasks[job_id].pc = "scheduled"
    /\ job_id \in file_jobs
    /\ written' = [written EXCEPT ![job_id] = @ \o <<StatusAtStart, "error">>]
    /\ jobs' = [jobs EXCEPT ![job_id] =
                  SetError([@ EXCEPT !.status = StatusAtStart],
                           ErrorText("file", detail), clock)]
    /\ tasks' = [tasks EXCEPT ![job_id] = TaskEnd]
    /\ raised' = [raised EXCEPT ![job_id] = Some(detail)]
    /\ UNCHANGED <<cfg, keys, probes, call, message_jobs, file_jobs, uploads, clock, removed,
                   response, released, ctx>>

\* process_file_job_background, lines 98-117
ResumeFileTask(job_id, outG, outD, unlink_fails) ==
    /\ tasks[job_id].pc = "running"
    /\ jobs[job_id].kind = "file"
    /\ LET o == get_file_analysis(tasks[job_id].orch, cfg, outG, outD) IN
         IF o.phase = "raised"
         THEN /\ ExceptHandler(job_id, file_jobs, jobs[job_id].status, ProviderError(o))
              /\ raised' = [raised EXCEPT ![job_id] = Some(ProviderError(o))]
              /\ ~unlink_fails
              /\ UNCHANGED <<file_jobs, uploads>>
         ELSE IF Suspended(o)
         THEN /\ tasks' = [tasks EXCEPT ![job_id] = RunningTask(o)]
              /\ ~unlink_fails
              /\ UNCHANGED <<jobs, written, file_jobs, uploads, raised>>
         ELSE IF CleanupRaises(unlink_fails)
         THEN /\ jobs' = IF job_id \in file_jobs
                         THEN [jobs EXCEPT ![job_id] =
                                  SetError(@, ErrorText("file", CleanupError), clock)]
                         ELSE Release(jobs, job_id, file_jobs)
              /\ written' = [written EXCEPT ![job_id] =
                                 IF job_id \in file_jobs THEN @ \o <<"done", "error">>
                                 ELSE Append(@, "done")]
              /\ tasks' = [tasks EXCEPT ![job_id] = TaskEnd]
              /\ raised' = [raised EXCEPT ![job_id] = Some(CleanupError)]
              /\ UNCHANGED <<file_jobs, uploads>>
         ELSE /\ file_jobs' = StoreAfterWriteback(file_jobs, job_id)
              /\ jobs' = Release([jobs EXCEPT ![job_id] = SetDone(@, o.result[1], clock)],
                                 job_id, file_jobs')
              /\ written' = [written EXCEPT ![job_id] = Append(@, "done")]
              /\ uploads' = _cleanup_file(uploads, job_id, unlink_fails)
              /\ tasks' = [tasks EXCEPT ![job_id] = TaskEnd]
              /\ UNCHANGED raised
    /\ released' = IF get_file_analysis(tasks[job_id].orch, cfg, outG, outD).phase = "returned"
                   THEN released \cup {job_id} ELSE released
    /\ UNCHANGED <<cfg, keys, probes, call, message_jobs, clock, removed, response, ctx>>

FailFileTask(job_id, detail) ==
    /\ tasks[job_id].pc = "running"
    /\ jobs[job_id].kind = "file"
    /\ ExceptHandler(job_id, file_jobs, jobs[job_id].status, detail)
    /\ raised' = [raised EXCEPT ![job_id] = Some(detail)]
    /\ UNCHANGED <<cfg, keys, probes, call, message_jobs, file_jobs, uploads, clock, removed,
                   response, released, ctx>>

(***************************************************************************)
(* Routes: DELETE /messages/{job_id}, DELETE /chat/clear.                  *)
(***************************************************************************)
\* history: whether the job was removed before or after its task settled it
RemovalMark(job) == IF Terminal(job.status) THEN "settled" ELSE "in_flight"

TaskOver(job_id) == tasks[job_id].pc \in {"finished", "crashed"}

\* delete_job, line 128: the id is in neither store
DeleteMissing(job_id) == Failure(404, "delete_job", job_id)

\* delete_job
DeleteJob(job_id, unlink_fails) ==
    /\ IF job_id \in message_jobs
       THEN /\ message_jobs' = message_jobs \ {job_id}
            /\ ~unlink_fails
            /\ response' = Success
            /\ UNCHANGED <<file_jobs, uploads>>
       ELSE IF job_id \in file_jobs /\ CleanupRaises(unlink_fails)
       THEN /\ response' = Failure(500, "delete_job", job_id)
            /\ UNCHANGED <<message_jobs, file_jobs, uploads>>
       ELSE IF job_id \in file_jobs
       THEN /\ uploads' = _cleanup_file(uploads, job_id, unlink_fails)
            /\ file_jobs' = file_jobs \ {job_id}
            /\ response' = Success
            /\ UNCHANGED message_jobs
       ELSE /\ response' = DeleteMissing(job_id)
            /\ ~unlink_fails
            /\ UNCHANGED <<message_jobs, file_jobs, uploads>>
    /\ removed' = IF job_id \in Stored \ Stored'
                  THEN [removed EXCEPT ![job_id] = RemovalMark(jobs[job_id])]
                  ELSE removed
    /\ jobs' = IF job_id \in Stored \ Stored' /\ TaskOver(job_id)
               THEN Release(jobs, job_id, {}) ELSE jobs
    /\ released' = IF job_id \in file_jobs THEN released \cup {job_id} ELSE released
    /\ UNCHANGED <<cfg, keys, probes, call, tasks, clock, written, raised, ctx>>

\* clear_all_chat: clear_all_message_jobs, clear_all_file_jobs; failing is the
\* set of stored files whose unlink fails
ClearAllChat(failing) ==
    /\ message_jobs' = {}
    /\ uploads' = {f \in uploads : f \notin file_jobs \/ f \in failing}
    /\ file_jobs' = IF CleanupRaises(failing # {}) THEN file_jobs ELSE {}
    /\ removed' = [j \in JobIds |->
                     IF j \in Stored \ Stored' THEN RemovalMark(jobs[j]) ELSE removed[j]]
    /\ jobs' = [j \in JobIds |->
                  IF j \in Stored \ Stored' /\ TaskOver(j) THEN Freed(jobs[j]) ELSE jobs[j]]
    /\ response' = IF CleanupRaises(failing # {})
                   THEN Failure(500, "clear_all_chat", 0) ELSE Success
    /\ released' = released \cup file_jobs
    /\ UNCHANGED <<cfg, keys, probes, call, tasks, clock, written, raised, ctx>>

(***************************************************************************)
(* A direct call of the orchestrator (the /test routes and the unit tests  *)
(* call AIProcessor without a job).                                        *)
(***************************************************************************)
CallMessages == {Strip(m) : m \in {r \in RawMessages : MessageAccepted(r)}}

CallFiles ==
    {FileRequest(u.filename, FileExtension(u.filename), u.content_len) :
        u \in {v \in Uploads : validate_file(v) = None}}

CallGetAiResponse(user_message) ==
    /\ call.phase = "idle"
    /\ call' = BeginCall(MessageRequest(user_message, <<>>))
    /\ UNCHANGED <<cfg, keys, probes, jobs, message_jobs, file_jobs, tasks, uploads, clock,
                   written, removed, raised, response, released, ctx>>

CallGetFileAnalysis(req) ==
    /\ call.phase = "idle"
    /\ call' = BeginCall(req)
    /\ UNCHANGED <<cfg, keys, probes, jobs, message_jobs, file_jobs, tasks, uploads, clock,
                   written, removed, raised, response, released, ctx>>

ResumeCall(outG, outD) ==
    /\ Suspended(call)
    /\ call' = Resume(call, cfg, outG, outD)
    /\ UNCHANGED <<cfg, keys, probes, jobs, message_jobs, file_jobs, tasks, uploads, clock,
                   written, removed, raised, response, released, ctx>>

(***************************************************************************)
(* ConversationContext (utils/context_manager.py).  A history item is a    *)
(* record with the keys the optimizer reads: type, user_message,           *)
(* ai_response (both "" for a file item, which has neither key) and        *)
(* created_at.  Texts are sequences of characters.                         *)
(***************************************************************************)
IsWordChar(c) == IsAlpha(c) \/ IsDigit(c) \/ c = "_"

Min(a, b) == IF a <= b THEN a ELSE b

\* the least element of a non-empty set of numbers
Least(S) == CHOOSE i \in S : \A k \in S : i <= k

\* lit occurs in text at position i
OccursAt(text, lit, i) ==
    i + Len(lit) - 1 <= Len(text) /\ SubSeq(text, i, i + Len(lit) - 1) = lit

\* the end of the longest run text[i..k] of word characters (i - 1 if none)
RECURSIVE WordRunEnd(_, _)
WordRunEnd(text, i) ==
    IF i <= Len(text) /\ IsWordChar(text[i]) THEN WordRunEnd(text, i + 1) ELSE i - 1

\* the end of the longest run text[i..k] without ".", "!" or "?"
RECURSIVE PhraseRunEnd(_, _)
PhraseRunEnd(text, i) ==
    IF i <= Len(text) /\ text[i] \notin {".", "!", "?"}
    THEN PhraseRunEnd(text, i + 1) ELSE i - 1

\* re.search(lit + r"(\w+)", text): group 1 of the leftmost match, or None
SearchWord(text, lit) ==
    LET at == {i \in 1..Len(text) :
                  /\ OccursAt(text, lit, i)
                  /\ i + Len(lit) <= Len(text)
                  /\ IsWordChar(text[i + Len(lit)])}
    IN  IF at = {} THEN None
        ELSE LET b == Least(at) + Len(lit)
             IN  Some(SubSeq(text, b, WordRunEnd(text, b)))

\* re.search(r"i (?:like|love) ([^.!?]+)", text) with the alternatives in lits:
\* group 1 of the leftmost match, or None
SearchPhrase(text, lits) ==
    LET at == {i \in 1..Len(text) :
                  \E lit \in lits :
                      /\ OccursAt(text, lit, i)
                      /\ i + Len(lit) <= Len(text)
                      /\ text[i + Len(lit)] \notin {".", "!", "?"}}
    IN  IF at = {} THEN None
        ELSE LET i == Least(at)
                 lit == CHOOSE l \in lits : OccursAt(text, l, i)
                 b == i + Len(lit)
             IN  Some(SubSeq(text, b, PhraseRunEnd(text, b)))

\* name_patterns, the text before the group (\w+)
name_patterns ==
    << <<"m", "y", " ", "n", "a", "m", "e", " ", "i", "s", " ">>,
       <<"i", " ", "a", "m", " ">>,
       <<"c", "a", "l", "l", " ", "m", "e", " ">> >>

\* the intent patterns that are plain phrases
intent_phrases ==
    { <<"r", "e", "m", "e", "m", "b", "e", "r", " ", "t", "h", "a", "t", " ", "i">>,
      <<"d", "o", "n", "'", "t", " ", "f", "o", "r", "g", "e", "t">>,
      <<"k", "e", "e", "p", " ", "i", "n", " ", "m", "i", "n", "d">> }

\* i (?:like|love) and i (?:hate|don't like), the text before the group
preference_verbs ==
    { <<"i", " ", "l", "i", "k", "e", " ">>, <<"i", " ", "l", "o", "v", "e", " ">> }

dislike_verbs ==
    { <<"i", " ", "h", "a", "t", "e", " ">>,
      <<"i", " ", "d", "o", "n", "'", "t", " ", "l", "i", "k", "e", " ">> }

\* self.important_keywords
important_keywords ==
    << <<"i", "m", "p", "o", "r", "t", "a", "n", "t">>,
       <<"r", "e", "m", "e", "m", "b", "e", "r">>,
       <<"n", "o", "t", "e">>,
       <<"k", "e", "y">>,
       <<"c", "r", "i", "t", "i", "c", "a", "l">>,
       <<"n", "a", "m", "e">>,
       <<"e", "m", "a", "i", "l">>,
       <<"p", "h", "o", "n", "e">>,
       <<"a", "d", "d", "r", "e", "s", "s">>,
       <<"p", "a", "s", "s", "w", "o", "r", "d">>,
       <<"e", "r", "r", "o", "r">>,
       <<"p", "r", "o", "b", "l", "e", "m">>,
       <<"i", "s", "s", "u", "e">>,
       <<"h", "e", "l", "p">>,
       <<"u", "r", "g", "e", "n", "t">> >>

\* self.intent_patterns: one of them is found in text
IntentFound(text) ==
    \/ \E k \in 1..Len(name_patterns) : SearchWord(text, name_patterns[k]) # None
    \/ \E phrase \in intent_phrases : HasSub(text, phrase)

ItemLength(message) == Len(message.user_message) + Len(message.ai_response)

\* _calculate_message_score, times 6000 * total_messages so that every term is
\* an integer: 0.4 * (total - index) / total + 0.2 * min(len / 200, 1)
\* + 0.3 * min(count / 3, 1) + 0.1 * intent; index counts from 0
_calculate_message_score(message, index, total_messages) ==
    LET text == Lower(message.user_message \o <<" ">> \o message.ai_response)
        keyword_count ==
            Cardinality({k \in 1..Len(important_keywords) :
                            HasSub(text, important_keywords[k])})
        intent == IF IntentFound(text) THEN 1 ELSE 0
    IN  2400 * (total_messages - index)
          + 6 * total_messages * Min(Len(text), 200)
          + 600 * total_messages * Min(keyword_count, 3)
          + 600 * total_messages * intent

\* user_info = {}
NoUserInfo == [name |-> None, preferences |-> <<>>, dislikes |-> <<>>]

\* the name patterns in their order: the first one that matches gives the name
NameIn(text) ==
    IF SearchWord(text, name_patterns[1]) # None THEN SearchWord(text, name_patterns[1])
    ELSE IF SearchWord(text, name_patterns[2]) # None
    THEN SearchWord(text, name_patterns[2])
    ELSE SearchWord(text, name_patterns[3])

\* one iteration of `for message in messages` of _extract_user_info
ExtractFrom(user_info, message) ==
    LET text == Lower(message.user_message)
        name == NameIn(text)
        pref == SearchPhrase(text, preference_verbs)
        dislike == SearchPhrase(text, dislike_verbs)
    IN  [name |-> IF name # None THEN Some(Title(name[1])) ELSE user_info.name,
         preferences |-> IF pref # None THEN Append(user_info.preferences, Strip(pref[1]))
                         ELSE user_info.preferences,
         dislikes |-> IF dislike # None THEN Append(user_info.dislikes, Strip(dislike[1]))
                      ELSE user_info.dislikes]

RECURSIVE ExtractUpTo(_, _)
ExtractUpTo(messages, n) ==
    IF n = 0 THEN NoUserInfo
    ELSE ExtractFrom(ExtractUpTo(messages, n - 1), messages[n])

_extract_user_info(messages) == ExtractUpTo(messages, Len(messages))

\* ' '.join / ', '.join
RECURSIVE Join(_, _)
Join(parts, sep) ==
    IF parts = <<>> THEN <<>>
    ELSE IF Len(parts) = 1 THEN parts[1]
    ELSE parts[1] \o sep \o Join(Tail(parts), sep)

\* messages[-n:] for n > 0
LastItems(messages, n) ==
    IF n >= Len(messages) THEN messages
    ELSE SubSeq(messages, Len(messages) - n + 1, Len(messages))

\* seq[-n:] as Python slices: -0 is 0, so seq[-0:] is the whole list
SliceLast(seq, n) ==
    IF n = 0 THEN seq
    ELSE IF n > 0 THEN LastItems(seq, n)
    ELSE SubSeq(seq, 1 - n, Len(seq))

_create_context_summary(messages, user_info) ==
    IF messages = <<>> THEN <<"New conversation started">>
    ELSE LET recent == LastItems(messages, 3)
             recent_text ==
                 Lower(Join([i \in 1..Len(recent) |-> recent[i].user_message], <<" ">>))
             found == SelectSeq(important_keywords, LAMBDA k : HasSub(recent_text, k))
             topics == SubSeq(found, 1, Min(3, Len(found)))
             summary_parts ==
                 (IF user_info.name # None
                  THEN << <<"User: ">> \o user_info.name[1] >> ELSE <<>>)
                 \o << <<"Messages: ", ToString(Len(messages))>> >>
                 \o (IF topics # <<>>
                     THEN << <<"Recent topics: ">> \o Join(topics, <<", ">>) >>
                     ELSE <<>>)
         IN  Join(summary_parts, <<" | ">>)

\* the loop of _trim_context over reversed(messages), at messages[k] with
\* used_length characters taken: the items it keeps, in their order
RECURSIVE TrimLoop(_, _, _, _)
TrimLoop(messages, k, used_length, available_length) ==
    IF k = 0 THEN <<>>
    ELSE IF used_length + ItemLength(messages[k]) <= available_length
    THEN Append(TrimLoop(messages, k - 1, used_length + ItemLength(messages[k]),
                         available_length),
                messages[k])
    ELSE <<>>

\* a trim that keeps the oldest items that fit
RECURSIVE TrimLoop_FromOldest(_, _, _, _)
TrimLoop_FromOldest(messages, k, used_length, available_length) ==
    IF k > Len(messages) THEN <<>>
    ELSE IF used_length + ItemLength(messages[k]) <= available_length
    THEN <<messages[k]>> \o TrimLoop_FromOldest(messages, k + 1,
                                used_length + ItemLength(messages[k]), available_length)
    ELSE <<>>

_trim_context_FromOldest(self, messages, current_message) ==
    TrimLoop_FromOldest(messages, 1, 0, self.max_context_length - Len(current_message))

_trim_context(self, messages, current_message) ==
    TrimLoop(messages, Len(messages), 0, self.max_context_length - Len(current_message))

RECURSIVE TotalLength(_)
TotalLength(messages) ==
    IF messages = <<>> THEN 0
    ELSE ItemLength(Head(messages)) + TotalLength(Tail(messages))

\* the scores of messages[1..k], in the order of the history
RECURSIVE ScoresUpTo(_, _)
ScoresUpTo(messages, k) ==
    IF k = 0 THEN <<>>
    ELSE Append(ScoresUpTo(messages, k - 1),
                _calculate_message_score(messages[k], k - 1, Len(messages)))

\* index i put into a list of indexes that is ordered by falling score, behind
\* every index whose score is not lower
RECURSIVE InsertByScore(_, _, _)
InsertByScore(sorted, i, score) ==
    IF sorted = <<>> THEN <<i>>
    ELSE IF score[Head(sorted)] >= score[i]
    THEN <<Head(sorted)>> \o InsertByScore(Tail(sorted), i, score)
    ELSE <<i>> \o sorted

RECURSIVE SortUpTo(_, _)
SortUpTo(score, k) ==
    IF k = 0 THEN <<>> ELSE InsertByScore(SortUpTo(score, k - 1), k, score)

\* scored_messages.sort(key=score, reverse=True): the sort is stable, so items
\* of the same score keep the order of the history
SortedIndexes(messages) ==
    SortUpTo(ScoresUpTo(messages, Len(messages)), Len(messages))

\* lines 129-134: context_messages = important_messages + recent_messages
SelectedMessages(messages) ==
    LET recent_messages == LastItems(messages, 3)
        recent == {recent_messages[i] : i \in 1..Len(recent_messages)}
        sorted == SortedIndexes(messages)
        top == SubSeq(sorted, 1, Min(5, Len(sorted)))
        important == SelectSeq(top, LAMBDA i : messages[i] \notin recent)
        important_messages == [r \in 1..Len(important) |-> messages[important[r]]]
    IN  important_messages \o recent_messages

\* lines 129-144: the selection before the count cap
ContextMessages(self, messages, current_message) ==
    LET context_messages == SelectedMessages(messages)
    IN  IF TotalLength(context_messages) > self.max_context_length
        THEN _trim_context(self, context_messages, current_message)
        ELSE context_messages

optimize_context(self, messages, current_message) ==
    IF messages = <<>>
    THEN [optimized_context |-> <<>>, user_info |-> NoUserInfo,
          context_summary |-> <<"Starting new conversation">>,
          total_length |-> 0, optimization_applied |-> FALSE]
    ELSE LET context_messages == ContextMessages(self, messages, current_message)
             user_info == _extract_user_info(messages)
         IN  [optimized_context |-> SliceLast(context_messages, self.max_messages),
              user_info |-> user_info,
              context_summary |-> _create_context_summary(messages, user_info),
              total_length |-> TotalLength(SliceLast(context_messages, self.max_messages)),
              optimization_applied |-> Len(context_messages) < Len(messages)]

\* context_manager = ConversationContext()
context_manager == [max_context_length |-> 4000, max_messages |-> 20]

get_optimized_context(chat_history, current_message) ==
    optimize_context(context_manager, chat_history, current_message)

\* no call of the context optimizer was made
NoContext == [phase |-> "idle"]

(***************************************************************************)
(* The /test routes (routes/test.py).  Each saves the provider keys of     *)
(* Config in locals, overwrites them with invalid ones, awaits an          *)
(* orchestrator call (which suspends at least at its UX delay) and writes  *)
(* the saved values back.  probes[p] is one invocation: its route, its     *)
(* position and its locals; an unassigned local (None) is "".              *)
(***************************************************************************)
MaxProbes == 2
ProbeIds == 1..MaxProbes

\* os.environ.get(...) at startup: the key, or nothing
StartupKey(configured) == IF configured THEN "key" ELSE ""

StartupKeys(c) ==
    [GEMINI_API_KEY |-> StartupKey(c.gemini), DEEPAI_API_KEY |-> StartupKey(c.deepai)]

NoProbe == [route |-> "", pc |-> "idle", original_gemini |-> "", original_deepai |-> ""]

\* `if original_key: Config.X = original_key` of the except clauses
RestoreOnError(current, original) == IF original # "" THEN original ELSE current

\* the handler has answered
ProbeReturned(p) == [probes EXCEPT ![p].pc = "returned"]

\* test_gemini_failure, lines 16-24: to the await
TestGeminiFailure(p) ==
    /\ probes[p].pc = "idle"
    /\ probes' = [probes EXCEPT ![p] = [route |-> "test_gemini_failure", pc |-> "awaiting",
                                        original_gemini |-> keys.GEMINI_API_KEY,
                                        original_deepai |-> ""]]
    /\ keys' = [keys EXCEPT !.GEMINI_API_KEY = "invalid_key_to_force_failure"]
    /\ UNCHANGED <<cfg, call, jobs, message_jobs, file_jobs, tasks, uploads, clock,
                   written, removed, raised, response, released, ctx>>

\* lines 26-35: the call returns, the key is written back
TestGeminiFailureReturns(p) ==
    /\ probes[p].route = "test_gemini_failure" /\ probes[p].pc = "awaiting"
    /\ keys' = [keys EXCEPT !.GEMINI_API_KEY = probes[p].original_gemini]
    /\ probes' = ProbeReturned(p)
    /\ UNCHANGED <<cfg, call, jobs, message_jobs, file_jobs, tasks, uploads, clock,
                   written, removed, raised, response, released, ctx>>

\* lines 36-43: the call raises
TestGeminiFailureRaises(p) ==
    /\ probes[p].route = "test_gemini_failure" /\ probes[p].pc = "awaiting"
    /\ keys' = [keys EXCEPT !.GEMINI_API_KEY =
                    RestoreOnError(@, probes[p].original_gemini)]
    /\ probes' = ProbeReturned(p)
    /\ UNCHANGED <<cfg, call, jobs, message_jobs, file_jobs, tasks, uploads, clock,
                   written, removed, raised, response, released, ctx>>

\* test_both_apis_failure, lines 49-61: to the await
TestBothApisFailure(p) ==
    /\ probes[p].pc = "idle"
    /\ probes' = [probes EXCEPT ![p] = [route |-> "test_both_apis_failure",
                                        pc |-> "awaiting",
                                        original_gemini |-> keys.GEMINI_API_KEY,
                                        original_deepai |-> keys.DEEPAI_API_KEY]]
    /\ keys' = [GEMINI_API_KEY |-> "invalid_gemini_key",
                DEEPAI_API_KEY |-> "invalid_deepai_key"]
    /\ UNCHANGED <<cfg, call, jobs, message_jobs, file_jobs, tasks, uploads, clock,
                   written, removed, raised, response, released, ctx>>

\* lines 63-73
TestBothApisFailureReturns(p) ==
    /\ probes[p].route = "test_both_apis_failure" /\ probes[p].pc = "awaiting"
    /\ keys' = [GEMINI_API_KEY |-> probes[p].original_gemini,
                DEEPAI_API_KEY |-> probes[p].original_deepai]
    /\ probes' = ProbeReturned(p)
    /\ UNCHANGED <<cfg, call, jobs, message_jobs, file_jobs, tasks, uploads, clock,
                   written, removed, raised, response, released, ctx>>

\* lines 74-84
TestBothApisFailureRaises(p) ==
    /\ probes[p].route = "test_both_apis_failure" /\ probes[p].pc = "awaiting"
    /\ keys' = [GEMINI_API_KEY |->
                    RestoreOnError(keys.GEMINI_API_KEY, probes[p].original_gemini),
                DEEPAI_API_KEY |->
                    RestoreOnError(keys.DEEPAI_API_KEY, probes[p].original_deepai)]
    /\ probes' = ProbeReturned(p)
    /\ UNCHANGED <<cfg, call, jobs, message_jobs, file_jobs, tasks, uploads, clock,
                   written, removed, raised, response, released, ctx>>

\* test_file_fallback, lines 90-94: to the first await, the keys untouched
TestFileFallback(p) ==
    /\ probes[p].pc = "idle"
    /\ probes' = [probes EXCEPT ![p] = [route |-> "test_file_fallback",
                                        pc |-> "normal_call",
                                        original_gemini |-> "", original_deepai |-> ""]]
    /\ UNCHANGED <<cfg, call, jobs, message_jobs, file_jobs, tasks, uploads, clock,
                   written, removed, raised, response, released, ctx, keys>>

\* lines 96-103: the first call returns; to the second await
TestFileFallbackForces(p) ==
    /\ probes[p].route = "test_file_fallback" /\ probes[p].pc = "normal_call"
    /\ probes' = [probes EXCEPT ![p].pc = "awaiting",
                                ![p].original_gemini = keys.GEMINI_API_KEY,
                                ![p].original_deepai = keys.DEEPAI_API_KEY]
    /\ keys' = [GEMINI_API_KEY |-> "invalid_key", DEEPAI_API_KEY |-> "invalid_key"]
    /\ UNCHANGED <<cfg, call, jobs, message_jobs, file_jobs, tasks, uploads, clock,
                   written, removed, raised, response, released, ctx>>

\* lines 105-115
TestFileFallbackReturns(p) ==
    /\ probes[p].route = "test_file_fallback" /\ probes[p].pc = "awaiting"
    /\ keys' = [GEMINI_API_KEY |-> probes[p].original_gemini,
                DEEPAI_API_KEY |-> probes[p].original_deepai]
    /\ probes' = ProbeReturned(p)
    /\ UNCHANGED <<cfg, call, jobs, message_jobs, file_jobs, tasks, uploads, clock,
                   written, removed, raised, response, released, ctx>>

\* lines 116-126: one of the two calls raises
TestFileFallbackRaises(p) ==
    /\ probes[p].route = "test_file_fallback"
    /\ probes[p].pc \in {"normal_call", "awaiting"}
    /\ keys' = [GEMINI_API_KEY |->
                    RestoreOnError(keys.GEMINI_API_KEY, probes[p].original_gemini),
                DEEPAI_API_KEY |->
                    RestoreOnError(keys.DEEPAI_API_KEY, probes[p].original_deepai)]
    /\ probes' = ProbeReturned(p)
    /\ UNCHANGED <<cfg, call, jobs, message_jobs, file_jobs, tasks, uploads, clock,
                   written, removed, raised, response, released, ctx>>

(***************************************************************************)
(* Specifications.                                                         *)
(***************************************************************************)
InitStores ==
    /\ call = NoCall
    /\ jobs = [j \in JobIds |-> NoJob]
    /\ message_jobs = {}
    /\ file_jobs = {}
    /\ tasks = [j \in JobIds |-> NoTask]
    /\ uploads = {}
    /\ clock = 1
    /\ written = [j \in JobIds |-> <<>>]
    /\ removed = [j \in JobIds |-> ""]
    /\ raised = [j \in JobIds |-> None]
    /\ response = NoResponse
    /\ released = {}
    /\ keys = StartupKeys(cfg)
    /\ probes = [p \in ProbeIds |-> NoProbe]
    /\ ctx = NoContext

InitCall ==
    /\ cfg \in Configs
    /\ InitStores

\* what a provider attempt ends in while a job is processed
JobOutcomes ==
    { [kind |-> "transport", output |-> <<>>],
      [kind |-> "ok", output |-> <<" ", "A", " ">>] }

\* the configurations jobs are processed under: dummy mode never reads the keys
JobConfigs == {c \in Configs : c.dummy => (c.gemini /\ c.deepai)}

\* what the clients post while jobs are processed: requests that are accepted
JobMessages == { <<"H", "i">> }
JobUploads == {u \in Uploads : u.filename = <<"report", ".PDF">>}

\* str(e) of an unexpected exception
Details == { <<"API Error">>, <<"'created_at'">> }

Init ==
    /\ cfg \in JobConfigs
    /\ InitStores

Next ==
    \/ HasRoom /\ \E m \in JobMessages : CreateMessageJob(m)
    \/ HasRoom /\ \E u \in JobUploads : UploadFile(u)
    \/ \E j \in JobIds : StartMessageTask(j)
    \/ \E j \in JobIds, d \in Details : FailMessageTaskAtStart(j, d)
    \/ \E j \in JobIds, outG \in JobOutcomes, outD \in JobOutcomes :
          ResumeMessageTask(j, outG, outD)
    \/ \E j \in JobIds, d \in Details : FailMessageTask(j, d)
    \/ \E j \in JobIds : StartFileTask(j)
    \/ \E j \in JobIds, d \in Details : FailFileTaskAtStart(j, d)
    \/ \E j \in JobIds, outG \in JobOutcomes, outD \in JobOutcomes,
          unlink_fails \in BOOLEAN :
          ResumeFileTask(j, outG, outD, unlink_fails)
    \/ \E j \in JobIds, d \in Details : FailFileTask(j, d)
    \/ \E j \in Stored, unlink_fails \in BOOLEAN : DeleteJob(j, unlink_fails)
    \/ \E failing \in SUBSET (file_jobs \cap uploads) : ClearAllChat(failing)

Spec == Init /\ [][Next]_vars

\* a step of the task of job j: the event loop runs a task that is ready, and
\* a delay or a provider call it waits for ends
TaskStep(j) ==
    \/ StartMessageTask(j)
    \/ \E d \in Details : FailMessageTaskAtStart(j, d)
    \/ \E outG \in JobOutcomes, outD \in JobOutcomes : ResumeMessageTask(j, outG, outD)
    \/ \E d \in Details : FailMessageTask(j, d)
    \/ StartFileTask(j)
    \/ \E d \in Details : FailFileTaskAtStart(j, d)
    \/ \E outG \in JobOutcomes, outD \in JobOutcomes, unlink_fails \in BOOLEAN :
          ResumeFileTask(j, outG, outD, unlink_fails)
    \/ \E d \in Details : FailFileTask(j, d)

\* the job lifecycle with every task run fairly
SpecLive == Init /\ [][Next]_vars /\ \A j \in JobIds : WF_vars(TaskStep(j))

\* a provider attempt that fails: the request raises, or the reply is not a 200
FailureOutcomes == {out \in Outcomes : out.kind \in {"transport", "status"}}

\* the providers are down and nothing else goes wrong: every attempt fails and
\* no unexpected exception is raised in a task
NextProviders ==
    \/ HasRoom /\ \E m \in JobMessages : CreateMessageJob(m)
    \/ HasRoom /\ \E u \in JobUploads : UploadFile(u)
    \/ \E j \in JobIds : StartMessageTask(j)
    \/ \E j \in JobIds, outG \in FailureOutcomes, outD \in FailureOutcomes :
          ResumeMessageTask(j, outG, outD)
    \/ \E j \in JobIds : StartFileTask(j)
    \/ \E j \in JobIds, outG \in FailureOutcomes, outD \in FailureOutcomes,
          unlink_fails \in BOOLEAN :
          ResumeFileTask(j, outG, outD, unlink_fails)
    \/ \E j \in Stored, unlink_fails \in BOOLEAN : DeleteJob(j, unlink_fails)
    \/ \E failing \in SUBSET (file_jobs \cap uploads) : ClearAllChat(failing)

SpecProviders == Init /\ [][NextProviders]_vars

\* one direct orchestrator call under every configuration
NextCall ==
    \/ \E m \in CallMessages : CallGetAiResponse(m)
    \/ \E r \in CallFiles : CallGetFileAnalysis(r)
    \/ \E outG \in Outcomes, outD \in Outcomes : ResumeCall(outG, outD)

SpecCall == InitCall /\ [][NextCall]_vars

\* the /test routes, invoked up to MaxProbes times under every configuration
InitTest ==
    /\ cfg \in Configs
    /\ InitStores

NextTest ==
    \/ \E p \in ProbeIds : TestGeminiFailure(p)
    \/ \E p \in ProbeIds : TestGeminiFailureReturns(p)
    \/ \E p \in ProbeIds : TestGeminiFailureRaises(p)
    \/ \E p \in ProbeIds : TestBothApisFailure(p)
    \/ \E p \in ProbeIds : TestBothApisFailureReturns(p)
    \/ \E p \in ProbeIds : TestBothApisFailureRaises(p)
    \/ \E p \in ProbeIds : TestFileFallback(p)
    \/ \E p \in ProbeIds : TestFileFallbackForces(p)
    \/ \E p \in ProbeIds : TestFileFallbackReturns(p)
    \/ \E p \in ProbeIds : TestFileFallbackRaises(p)

SpecTest == InitTest /\ [][NextTest]_vars

(***************************************************************************)
(* The context optimizer on its own: a ConversationContext of some         *)
(* configuration is handed a history and the current message.              *)
(***************************************************************************)
MaxHistory == 6

\* the (user_message, ai_response) pairs the histories are made of
Exchanges ==
    { << <<"m", "y", " ", "n", "a", "m", "e", " ", "i", "s", " ", "A", "l", "i", "c", "e">>,
         <<"H", "i">> >>,
      << <<"I", " ", "a", "m", " ", "t", "i", "r", "e", "d">>, <<>> >>,
      << <<"n", "o", "t", "e">>, <<"o", "k">> >> }

\* a history item of a message turn
Turn(exchange, created_at) ==
    [type |-> "message", user_message |-> exchange[1], ai_response |-> exchange[2],
     created_at |-> created_at]

\* the histories of at most MaxHistory turns, in the order of their creation
Histories ==
    UNION { { [i \in 1..n |-> Turn(h[i], i)] : h \in [1..n -> Exchanges] }
            : n \in 0..MaxHistory }

\* ConversationContext(max_context_length, max_messages)
ContextManagers ==
    [max_context_length : {30, 4000}, max_messages : {0, 3, 20}]

CurrentMessages == { <<>>, <<"W", "h", "a", "t", " ", "i", "s", " ", "m", "y", " ", "n", "a", "m", "e", "?">> }

InitContext ==
    /\ cfg \in {c \in Configs : c.dummy /\ c.gemini /\ c.deepai}
    /\ call = NoCall
    /\ jobs = [j \in JobIds |-> NoJob]
    /\ message_jobs = {}
    /\ file_jobs = {}
    /\ tasks = [j \in JobIds |-> NoTask]
    /\ uploads = {}
    /\ clock = 1
    /\ written = [j \in JobIds |-> <<>>]
    /\ removed = [j \in JobIds |-> ""]
    /\ raised = [j \in JobIds |-> None]
    /\ response = NoResponse
    /\ released = {}
    /\ keys = StartupKeys(cfg)
    /\ probes = [p \in ProbeIds |-> NoProbe]
    /\ ctx \in [phase : {"called"}, self : ContextManagers, messages : Histories,
                current_message : CurrentMessages, out : {None}]

\* context_manager.optimize_context(messages, current_message) returns
OptimizeContext ==
    /\ ctx.phase = "called"
    /\ ctx' = [ctx EXCEPT !.phase = "returned",
                          !.out = Some(optimize_context(ctx.self, ctx.messages,
                                                        ctx.current_message))]
    /\ UNCHANGED <<cfg, keys, probes, call, jobs, message_jobs, file_jobs, tasks, uploads, clock,
                   written, removed, raised, response, released>>

NextContext == OptimizeContext

SpecContext == InitContext /\ [][NextContext]_vars

(***************************************************************************)
(* The selection of the context optimizer on longer histories: the default *)
(* ConversationContext is handed a history of up to MaxLongHistory turns.  *)
(***************************************************************************)
MaxLongHistory == 8

\* the turns of the longer histories: one that scores high, one that scores low
LongExchanges ==
    { << <<"m", "y", " ", "n", "a", "m", "e", " ", "i", "s", " ", "A", "l", "i", "c", "e">>,
         <<"H", "i">> >>,
      << <<"o", "k">>, <<>> >> }

LongHistories ==
    UNION { { [i \in 1..n |-> Turn(h[i], i)] : h \in [1..n -> LongExchanges] }
            : n \in 0..MaxLongHistory }

InitSelection ==
    /\ cfg \in {c \in Configs : c.dummy /\ c.gemini /\ c.deepai}
    /\ call = NoCall
    /\ jobs = [j \in JobIds |-> NoJob]
    /\ message_jobs = {}
    /\ file_jobs = {}
    /\ tasks = [j \in JobIds |-> NoTask]
    /\ uploads = {}
    /\ clock = 1
    /\ written = [j \in JobIds |-> <<>>]
    /\ removed = [j \in JobIds |-> ""]
    /\ raised = [j \in JobIds |-> None]
    /\ response = NoResponse
    /\ released = {}
    /\ keys = StartupKeys(cfg)
    /\ probes = [p \in ProbeIds |-> NoProbe]
    /\ ctx \in [phase : {"called"}, self : {context_manager}, messages : LongHistories,
                current_message : {<<>>}, out : {None}]

SpecSelection == InitSelection /\ [][NextContext]_vars

(***************************************************************************)
(* The context optimizer on histories that hold file items: a              *)
(* ConversationContext is handed a history of up to MaxFileHistory items,  *)
(* each a message turn or a file item as _build_chat_history makes them.   *)
(***************************************************************************)
MaxFileHistory == 4

\* the analysis text of the file items, 20 characters
AnalysisText == [i \in 1..20 |-> "A"]

\* a history item of a Done file job
FileItem(created_at) ==
    [type |-> "file", user_message |-> <<>>, ai_response |-> <<>>,
     original_filename |-> <<"report", ".PDF">>, file_type |-> ".pdf",
     file_size |-> 1024, analysis_result |-> AnalysisText,
     status |-> "done", created_at |-> created_at]

FileHistories ==
    UNION { { [i \in 1..n |-> IF h[i] = "file" THEN FileItem(i)
                                ELSE Turn(<< <<"n", "o", "t", "e">>, <<"o", "k">> >>, i)]
              : h \in [1..n -> {"file", "message"}] }
            : n \in 0..MaxFileHistory }

InitFileContext ==
    /\ cfg \in {c \in Configs : c.dummy /\ c.gemini /\ c.deepai}
    /\ call = NoCall
    /\ jobs = [j \in JobIds |-> NoJob]
    /\ message_jobs = {}
    /\ file_jobs = {}
    /\ tasks = [j \in JobIds |-> NoTask]
    /\ uploads = {}
    /\ clock = 1
    /\ written = [j \in JobIds |-> <<>>]
    /\ removed = [j \in JobIds |-> ""]
    /\ raised = [j \in JobIds |-> None]
    /\ response = NoResponse
    /\ released = {}
    /\ keys = StartupKeys(cfg)
    /\ probes = [p \in ProbeIds |-> NoProbe]
    /\ ctx \in [phase : {"called"}, self : ContextManagers, messages : FileHistories,
                current_message : CurrentMessages, out : {None}]

SpecFileContext == InitFileContext /\ [][NextContext]_vars

(***************************************************************************)
(* A conversation in dummy mode: up to MaxChatJobs messages and uploads,   *)
(* none of them deleted; the texts are those of test_smart_context_flow.py *)
(* and a renaming.                                                         *)
(***************************************************************************)
AliceText ==
    <<"H", "i", ",", " ", "m", "y", " ", "n", "a", "m", "e", " ", "i", "s",
      " ", "A", "l", "i", "c", "e", " ", "a", "n", "d", " ", "I", " ", "l",
      "o", "v", "e", " ", "m", "a", "c", "h", "i", "n", "e", " ", "l", "e",
      "a", "r", "n", "i", "n", "g">>

CallMeBob ==
    <<"c", "a", "l", "l", " ", "m", "e", " ", "B", "o", "b">>

InterestsQuestion ==
    <<"W", "h", "a", "t", " ", "d", "o", " ", "y", "o", "u", " ", "k", "n",
      "o", "w", " ", "a", "b", "o", "u", "t", " ", "m", "y", " ", "i", "n",
      "t", "e", "r", "e", "s", "t", "s", "?">>

ChatMessages == {AliceText, CallMeBob, InterestsQuestion}

InitChat ==
    /\ cfg \in {c \in Configs : c.dummy /\ c.gemini /\ c.deepai}
    /\ InitStores

NextChat ==
    \/ \E m \in ChatMessages : CreateMessageJob(m)
    \/ \E j \in JobIds : StartMessageTask(j)
    \/ \E j \in JobIds, out \in JobOutcomes : ResumeMessageTask(j, out, out)
    \/ \E u \in JobUploads : UploadFile(u)
    \/ \E j \in JobIds : StartFileTask(j)
    \/ \E j \in JobIds, out \in JobOutcomes : ResumeFileTask(j, out, out, FALSE)

SpecChat == InitChat /\ [][NextChat]_vars

(***************************************************************************)
(* The routes under every kind of request, in dummy mode: messages that    *)
(* are blank, uploads of a type that is not allowed, deletes of ids that   *)
(* are stored, were removed or were never given out, and clears of an      *)
(* empty store.                                                            *)
(***************************************************************************)
RouteMessages == { <<"H", "i">>, <<" ">>, <<>> }

\* uploads of more than MAX_FILE_SIZE bytes: the upload object reports its
\* size, or reports none (size is None, 0 or missing)
LargeUploads ==
    { [filename |-> <<"large", ".txt">>, size |-> MAX_FILE_SIZE + 1,
       content_len |-> MAX_FILE_SIZE + 1],
      [filename |-> <<"large", ".txt">>, size |-> 0,
       content_len |-> MAX_FILE_SIZE + 1] }

RouteUploads ==
    {u \in Uploads : u.filename \in { <<"report", ".PDF">>, <<"tool", ".exe">> }}
        \cup LargeUploads

InitRoutes ==
    /\ cfg \in {c \in Configs : c.dummy /\ c.gemini /\ c.deepai}
    /\ InitStores

NextRoutes ==
    \/ \E m \in RouteMessages :
          (MessageAccepted(m) => HasRoom) /\ CreateMessageJob(m)
    \/ \E u \in RouteUploads :
          (validate_file(u) = None => HasRoom) /\ UploadFile(u)
    \/ \E j \in JobIds : StartMessageTask(j)
    \/ \E j \in JobIds, out \in JobOutcomes : ResumeMessageTask(j, out, out)
    \/ \E j \in JobIds : StartFileTask(j)
    \/ \E j \in JobIds, out \in JobOutcomes, unlink_fails \in BOOLEAN :
          ResumeFileTask(j, out, out, unlink_fails)
    \/ \E j \in JobIds, unlink_fails \in BOOLEAN : DeleteJob(j, unlink_fails)
    \/ \E failing \in SUBSET (file_jobs \cap uploads) : ClearAllChat(failing)

SpecRoutes == InitRoutes /\ [][NextRoutes]_vars

(***************************************************************************)
(* Properties of the job lifecycle (Spec).                                 *)
(***************************************************************************)
Created == {j \in JobIds : tasks[j].pc # "none"}

StatusChains ==
    { <<"pending">>, <<"pending", "processing">>,
      <<"pending", "processing", "done">>, <<"pending", "processing", "error">> }

Last(seq) == seq[Len(seq)]

\* C1: the values assigned to a job's status are Pending, then Processing, then
\* exactly one of Done or Error, in that order, under every interleaving of
\* submissions, deletes and clears; the stored status is the last one assigned.
C1_StatusOrder ==
    \A j \in Created :
        /\ written[j] \in StatusChains
        /\ jobs[j].status # "freed" => jobs[j].status = Last(written[j])

\* two jobs went through the whole chain, one to Done and one to Error, and a
\* removal happened in between
C1_Witness ==
    \E j, k \in Created :
        /\ written[j] = <<"pending", "processing", "done">>
        /\ written[k] = <<"pending", "processing", "error">>
        /\ removed[j] # ""

\* C2: once a stored job is Done or Error, no step changes its status, its
\* result or its completedAt; it can only be removed.
C2_TerminalImmutable ==
    [][\A j \in JobIds :
          (j \in Stored /\ Terminal(jobs[j].status)) =>
              \/ j \notin Stored'
              \/ /\ jobs'[j].status = jobs[j].status
                 /\ jobs'[j].result = jobs[j].result
                 /\ jobs'[j].completed_at = jobs[j].completed_at]_vars

\* a stored terminal job while another job's task is still in flight
C2_Witness ==
    \E j, k \in Created :
        /\ j \in Stored /\ Terminal(jobs[j].status)
        /\ tasks[k].pc = "running"

\* C3: a stored job has a result exactly when it is Done or Error, and a
\* completedAt exactly when it is Done or Error.
C3_ResultIffTerminal ==
    \A j \in Stored :
        /\ (jobs[j].result # None) <=> Terminal(jobs[j].status)
        /\ (jobs[j].completed_at # None) <=> Terminal(jobs[j].status)

\* a Done job with its result next to a Processing job without one
C3_Witness ==
    \E j, k \in Stored :
        /\ jobs[j].status = "done" /\ jobs[j].result # None
        /\ jobs[k].status = "processing" /\ jobs[k].result = None

\* C4: a job id that delete or clear took out of its store is in no store in
\* any later state, whichever path its task ends on, and no task ends by
\* raising.
C4_NoReinsert ==
    \A j \in JobIds :
        /\ removed[j] # "" => j \notin Stored
        /\ tasks[j].pc # "crashed"

\* one task ran its success writeback and another its error handler, both
\* after their job was removed in flight
C4_Witness ==
    \E j, k \in Created :
        /\ removed[j] = "in_flight" /\ tasks[j].pc = "finished"
        /\ written[j] = <<"pending", "processing", "done">>
        /\ removed[k] = "in_flight" /\ tasks[k].pc = "finished"
        /\ written[k] = <<"pending", "processing">>

(***************************************************************************)
(* Properties of the orchestrator (SpecCall).                              *)
(***************************************************************************)
Attempts(o, provider) == {i \in 1..Len(o.log) : o.log[i].provider = provider}

AllAttemptsFailed(o) == \A i \in 1..Len(o.log) : ~o.log[i].ok

FallbackText(req) ==
    IF req.flow = "message"
    THEN _get_friendly_fallback_response(req.user_message)
    ELSE _get_friendly_file_fallback(req.filename, req.file_type, req.file_size)

CallRequests == {MessageRequest(m, <<>>) : m \in CallMessages} \cup CallFiles

\* C5: both entry points end by returning a text and never by raising, for
\* every configuration and every sequence of attempt outcomes.
C5_NeverRaises ==
    /\ call.phase \in {"idle", "ux_delay", "backoff", "returned"}
    /\ call.phase = "returned" => Len(call.result) = 1
    /\ call.phase # "returned" => call.result = None

\* a call returned after both providers used up all their attempts
C5_Witness ==
    /\ call.phase = "returned"
    /\ Len(call.log) = GEMINI_MAX_RETRIES + DEEPAI_MAX_RETRIES
    /\ AllAttemptsFailed(call)

\* C6 as stated: with dummy mode off and every attempt failed, the returned
\* apology is a fixed text (the same for every request of the flow) that holds
\* the marker and differs from the other flow's.
C6_Original ==
    (call.phase = "returned" /\ ~cfg.dummy /\ AllAttemptsFailed(call)) =>
        /\ ContainsPhrase(call.result[1], Marker)
        /\ \A r \in CallRequests :
              (r.flow = call.req.flow) <=> (call.result[1] = FallbackText(r))

\* C6 amended: the message flow returns one fixed apology; the file flow
\* returns the apology built from the file's name, type and size; both hold the
\* marker and no message apology equals a file apology.
C6_Apology ==
    (call.phase = "returned" /\ ~cfg.dummy /\ AllAttemptsFailed(call)) =>
        /\ ContainsPhrase(call.result[1], Marker)
        /\ call.result[1] = FallbackText(call.req)
        /\ \A r \in CallRequests :
              /\ (r.flow # call.req.flow) => call.result[1] # FallbackText(r)
              /\ (r.flow = "message" /\ call.req.flow = "message")
                    => call.result[1] = FallbackText(r)

\* a file analysis fell through both providers
C6_Witness ==
    /\ call.phase = "returned" /\ ~cfg.dummy /\ call.req.flow = "file"
    /\ Len(call.log) = GEMINI_MAX_RETRIES + DEEPAI_MAX_RETRIES
    /\ AllAttemptsFailed(call)

\* C7: get_ai_response returns a non-empty text whatever the providers send.
C7_NonEmpty ==
    (call.phase = "returned" /\ call.req.flow = "message") =>
        Len(call.result[1]) > 0

\* C8: with dummy mode off and both providers configured, when every Gemini
\* attempt failed and a DeepAI attempt was good, the returned text is the text
\* of that DeepAI attempt, and Gemini was attempted exactly GEMINI_MAX_RETRIES
\* times, all before the first DeepAI attempt.
C8_PriorityOrder ==
    ( /\ call.phase = "returned" /\ ~cfg.dummy /\ cfg.gemini /\ cfg.deepai
      /\ \A i \in Attempts(call, "gemini") : ~call.log[i].ok
      /\ \E k \in Attempts(call, "deepai") : call.log[k].ok ) =>
        /\ Cardinality(Attempts(call, "gemini")) = GEMINI_MAX_RETRIES
        /\ \A i \in Attempts(call, "gemini"), k \in Attempts(call, "deepai") : i < k
        /\ \E k \in Attempts(call, "deepai") :
              call.log[k].ok /\ call.result = Some(call.log[k].text)

\* Gemini failed twice and DeepAI answered on its second attempt
C8_Witness ==
    /\ call.phase = "returned" /\ ~cfg.dummy /\ cfg.gemini /\ cfg.deepai
    /\ Len(call.log) = 4
    /\ call.log[4].provider = "deepai" /\ call.log[4].ok
    /\ call.result = Some(call.log[4].text)

\* C9: a good attempt is the last attempt of the call, and the call returns
\* that attempt's text.
C9_ReturnOnSuccess ==
    \A i \in 1..Len(call.log) :
        call.log[i].ok =>
            /\ i = Len(call.log)
            /\ call.phase = "returned"
            /\ call.result = Some(call.log[i].text)

\* Gemini answered on its second attempt while DeepAI was configured too
C9_Witness ==
    /\ call.phase = "returned" /\ cfg.deepai
    /\ Len(call.log) = 2
    /\ call.log[2].provider = "gemini" /\ call.log[2].ok

\* C10: a provider without a credential is never attempted; without a Gemini
\* key the first attempt goes to DeepAI; with no key at all and dummy mode off
\* the apology is returned without any attempt.
C10_SkipUnconfigured ==
    /\ ~cfg.gemini => Attempts(call, "gemini") = {}
    /\ ~cfg.deepai => Attempts(call, "deepai") = {}
    /\ (~cfg.dummy /\ ~cfg.gemini /\ cfg.deepai /\ call.phase \in {"backoff", "returned"})
          => (call.log # <<>> /\ call.log[1].provider = "deepai")
    /\ (~cfg.dummy /\ ~cfg.gemini /\ ~cfg.deepai /\ call.phase = "returned")
          => (call.log = <<>> /\ call.result = Some(FallbackText(call.req)))

\* without a Gemini key the call went straight to DeepAI, which answered
C10_Witness ==
    /\ call.phase = "returned" /\ ~cfg.dummy /\ ~cfg.gemini /\ cfg.deepai
    /\ call.log # <<>> /\ Last(call.log).ok

\* the canned text of dummy mode for a request
CannedText(req) ==
    IF req.flow = "message"
    THEN _get_dummy_response(req.user_message)
    ELSE _get_dummy_file_analysis(req.filename, req.file_type, req.file_size)

\* C11: in dummy mode a call makes no provider attempt at any point and returns
\* the canned text computed from its request alone, whichever keys are set and
\* whatever the providers would have answered.
C11_DummyCanned ==
    cfg.dummy =>
        /\ call.log = <<>>
        /\ call.phase \in {"idle", "ux_delay", "returned"}
        /\ call.phase = "returned" => call.result = Some(CannedText(call.req))

\* a file analysis answered in dummy mode with both keys configured
C11_Witness ==
    /\ cfg.dummy /\ cfg.gemini /\ cfg.deepai
    /\ call.phase = "returned" /\ call.req.flow = "file"
    /\ call.result = Some(CannedText(call.req))

(***************************************************************************)
(* Properties of the error paths (SpecProviders, Spec).                    *)
(***************************************************************************)
\* the request a job's task hands to the orchestrator, without the history
JobRequest(job) ==
    IF job.kind = "message"
    THEN MessageRequest(job.user_message, <<>>)
    ELSE FileRequest(job.original_filename, job.file_type, job.file_size)

C13_UnexpectedError ==
    \A j \in JobIds :
        /\ tasks[j].pc # "crashed"
        /\ (raised[j] # None /\ j \in Stored) =>
              /\ tasks[j].pc = "finished"
              /\ jobs[j].status = "error"
              /\ jobs[j].result # None
              /\ HasSub(jobs[j].result[1], raised[j][1])
              /\ jobs[j].completed_at # None

\* a message job failed while its context was built and a file job failed at
\* its orchestrator call, with different exceptions
C13_Witness ==
    \E j, k \in Stored :
        /\ jobs[j].kind = "message" /\ jobs[k].kind = "file"
        /\ raised[j] # None /\ raised[k] # None /\ raised[j] # raised[k]
        /\ jobs[j].status = "error" /\ jobs[k].status = "error"

(***************************************************************************)
(* Properties of the context optimizer.                                    *)
(***************************************************************************)
Returned == ctx.phase = "returned"

\* the items of a sequence
Items(seq) == {seq[i] : i \in 1..Len(seq)}

\* C14: optimize_context returns at most max_messages items and their
\* combined character length is at most max_context_length, for every
\* history, current message and configuration.
C14_Bounded ==
    Returned =>
        /\ Len(ctx.out[1].optimized_context) <= ctx.self.max_messages
        /\ TotalLength(ctx.out[1].optimized_context) <= ctx.self.max_context_length

\* C15 as stated: with a history of at least 3 items, the last 3 input items
\* are all in the returned selection.
C15_Original ==
    (Returned /\ Len(ctx.messages) >= 3) =>
        Items(LastItems(ctx.messages, 3)) \subseteq Items(ctx.out[1].optimized_context)

\* the last 3 items and the current message fit the length budget, and the
\* count budget admits 3 items
RecentFits ==
    /\ Len(ctx.messages) >= 3
    /\ ctx.self.max_messages >= 3
    /\ TotalLength(LastItems(ctx.messages, 3)) + Len(ctx.current_message)
           <= ctx.self.max_context_length

\* C15 (amended): with a history of at least 3 items, max_messages >= 3, and
\* the last 3 items together with the current message within
\* max_context_length, the last 3 input items are all in the returned selection.
C15_RecentKept ==
    (Returned /\ RecentFits) =>
        Items(LastItems(ctx.messages, 3)) \subseteq Items(ctx.out[1].optimized_context)

\* a call in which older items were cut by the length budget and the last 3 kept
C15_Witness ==
    /\ Returned
    /\ RecentFits
    /\ Len(ctx.messages) > 3
    /\ TotalLength(ctx.messages) > ctx.self.max_context_length
    /\ Len(ctx.out[1].optimized_context) < Len(ctx.messages)
    /\ Items(LastItems(ctx.messages, 3)) \subseteq Items(ctx.out[1].optimized_context)

AliceSays == <<"m", "y", " ", "n", "a", "m", "e", " ", "i", "s", " ", "A", "l", "i", "c", "e">>
Alice == <<"A", "l", "i", "c", "e">>

\* C16: when some item's user text contains 'my name is Alice', the derived
\* profile has name 'Alice' and the summary contains 'Alice', whatever the
\* other items say.
C16_NameAlice ==
    (Returned /\ \E i \in 1..Len(ctx.messages) :
                     HasSub(ctx.messages[i].user_message, AliceSays)) =>
        /\ ctx.out[1].user_info.name = Some(Alice)
        /\ HasSub(ctx.out[1].context_summary, Alice)

(***************************************************************************)
(* Properties of the conversation context of a job.                        *)
(***************************************************************************)
MachineLearning ==
    <<"m", "a", "c", "h", "i", "n", "e", " ", "l", "e", "a", "r", "n", "i",
      "n", "g">>

\* job b leaves "scheduled" for its orchestrator call in this step
Begins(b) == tasks[b].pc = "scheduled" /\ tasks'[b].pc = "running"

\* C17: if message job A with the text AliceText is Done and stored when a
\* later message job B begins processing, the history handed to B's
\* orchestrator call contains A's turn, and the profile derived from that
\* history has name 'Alice' and 'machine learning' among its preferences.
C17_AliceRemembered ==
    [][\A a \in message_jobs, b \in message_jobs :
          (/\ jobs[a].user_message = AliceText
           /\ jobs[a].status = "done"
           /\ jobs[a].created_at < jobs[b].created_at
           /\ Begins(b))
          => LET chat_history == tasks'[b].orch.req.chat_history
                 profile == get_optimized_context(chat_history,
                                                  jobs[b].user_message).user_info
             IN  /\ HistoryItem(jobs[a]) \in Items(chat_history)
                 /\ profile.name = Some(Alice)
                 /\ MachineLearning \in Items(profile.preferences)]_vars

(***************************************************************************)
(* Properties of the routes.                                               *)
(***************************************************************************)
\* C18: deleting a job id that was already deleted, and clearing when no job
\* is stored, both answer without an error and leave the job stores unchanged.
C18_Idempotent ==
    [][/\ \A j \in JobIds, unlink_fails \in BOOLEAN :
             (removed[j] # "" /\ DeleteJob(j, unlink_fails))
             => (response'.status = 200 /\ UNCHANGED <<message_jobs, file_jobs>>)
       /\ \A failing \in SUBSET uploads :
             (Stored = {} /\ ClearAllChat(failing))
             => (response'.status = 200 /\ UNCHANGED <<message_jobs, file_jobs>>)]_vars

\* the file's extension is outside the allowed set
Disallowed(file) == FileExtension(file.filename) \notin ALLOWED_FILE_TYPES

\* C19: an upload whose extension is outside the allowed set is rejected
\* before job creation: no job is added to the file-job store, no task is
\* scheduled and nothing is written to file storage.
C19_UploadRejected ==
    [][\A u \in RouteUploads :
          (Disallowed(u) /\ UploadFile(u))
          => (/\ response'.status = 400
              /\ UNCHANGED <<jobs, file_jobs, message_jobs, tasks, uploads>>)]_vars

\* a disallowed upload was answered while a file job was stored
C19_Witness ==
    /\ response = Failure(400, "upload_file", 0)
    /\ file_jobs # {}
    /\ \A j \in file_jobs : jobs[j].file_type \in ALLOWED_FILE_TYPES

\* the message is empty or white space only
Blank(message) == \A i \in 1..Len(message) : IsSpace(message[i])

\* C20: a submitted message that is empty or white space only is rejected
\* in the request itself: the message-job store is unchanged and no task is
\* scheduled.
C20_BlankRejected ==
    [][\A m \in RouteMessages :
          (Blank(m) /\ CreateMessageJob(m))
          => (/\ response'.status >= 400
              /\ UNCHANGED <<jobs, message_jobs, tasks>>)]_vars

\* a blank message was answered while a message job was stored
C20_Witness ==
    /\ response = Failure(500, "create_message_job", 0)
    /\ message_jobs # {}
    /\ \A j \in message_jobs : ~Blank(jobs[j].user_message)

\* C21: an empty message is answered with the validation error, HTTP 400, not
\* with the internal error, HTTP 500.
C21_EmptyIs400 ==
    response.op = "create_message_job" => response.status = 400

(***************************************************************************)
(* Properties of job creation and of the tasks' progress.                  *)
(***************************************************************************)
\* C22: create stores a new job in Pending without a result and schedules one
\* task for it, which has made no call when create returns; no other task
\* runs during create; a task is scheduled only in the creation of its job, so
\* a job never has a second task.
C22_CreateOnce ==
    [][\A j \in JobIds :
          /\ (jobs[j].kind = "none" /\ jobs'[j].kind # "none")
             => (/\ jobs'[j].status = "pending"
                 /\ jobs'[j].result = None
                 /\ jobs'[j].completed_at = None
                 /\ j \in message_jobs' \cup file_jobs'
                 /\ tasks[j].pc = "none"
                 /\ tasks'[j].pc = "scheduled"
                 /\ tasks'[j].orch.phase = "idle"
                 /\ tasks'[j].orch.log = <<>>
                 /\ \A k \in JobIds \ {j} : tasks'[k] = tasks[k])
          /\ (tasks[j].pc # "scheduled" /\ tasks'[j].pc = "scheduled")
             => (jobs[j].kind = "none" /\ jobs'[j].kind # "none")
          /\ (tasks[j].pc # "none") => (tasks'[j].pc # "none")]_vars

\* a job was created and waits for its task while the task of an earlier job
\* is over
C22_Witness ==
    \E j \in Stored, k \in JobIds :
        /\ jobs[j].status = "pending"
        /\ jobs[j].result = None
        /\ tasks[j].pc = "scheduled"
        /\ tasks[k].pc = "finished"

\* C23: under fair scheduling of the tasks and provider calls that return,
\* every stored job is eventually Done or Error, or leaves the store by a
\* delete or a clear.
C23_Terminates ==
    \A j \in JobIds :
        (j \in Stored) ~> (j \notin Stored \/ Terminal(jobs[j].status))

\* a job processed with the providers switched on is Done, its task over
C23_Witness ==
    \E j \in Stored :
        /\ jobs[j].status = "done"
        /\ tasks[j].pc = "finished"
        /\ ~cfg.dummy

(***************************************************************************)
(* Properties of the stored files.                                         *)
(***************************************************************************)
\* C24: for every file job, _cleanup_file is called for its stored file when
\* the job reaches Done or Error, when it is deleted and when it is cleared.
C24_Released ==
    \A j \in JobIds :
        (jobs[j].kind = "file" /\ (Terminal(jobs[j].status) \/ removed[j] # ""))
        => j \in released

\* C25: optimization_applied is true exactly when fewer items are returned,
\* after selection, length trim and count cap, than the history holds.
C25_TrimmedFlag ==
    Returned =>
        (ctx.out[1].optimization_applied
            <=> Len(ctx.out[1].optimized_context) < Len(ctx.messages))

(***************************************************************************)
(* Properties of the history built for a message job.                      *)
(***************************************************************************)
\* the history handed to the orchestrator call that job b's task begins in
\* this step
HandedHistory(b) == tasks'[b].orch.req.chat_history

\* C26 as stated: the history built for message job J holds every other
\* stored job that was Done or Error when J began processing.
C26_Original ==
    [][\A b \in message_jobs :
          Begins(b) =>
              \A a \in Stored \ {b} :
                  Terminal(jobs[a].status)
                  => \E i \in 1..Len(HandedHistory(b)) :
                         HandedHistory(b)[i].created_at = jobs[a].created_at]_vars

\* C26 (amended): the history built for message job J holds a copy of every
\* other stored job, message or file, that was Done when J began processing.
C26_DoneIncluded ==
    [][\A b \in message_jobs :
          Begins(b) =>
              \A a \in Stored \ {b} :
                  jobs[a].status = "done"
                  => HistoryItem(jobs[a]) \in Items(HandedHistory(b))]_vars

\* a message task is in its call with the turn of a Done file job in its history
C26_Witness ==
    \E b \in message_jobs, a \in file_jobs :
        /\ tasks[b].pc = "running"
        /\ jobs[a].status = "done"
        /\ HistoryItem(jobs[a]) \in Items(tasks[b].orch.req.chat_history)

\* C28: the history built for message job J holds no copy of J, no copy of a
\* job that was Pending or Processing when it was built, and its items are in
\* the order of their creation, oldest first.
C28_HistoryClean ==
    [][\A b \in message_jobs :
          Begins(b) =>
              LET h == HandedHistory(b) IN
                /\ \A i \in 1..Len(h) :
                      /\ h[i].created_at # jobs[b].created_at
                      /\ \A a \in JobIds :
                            (jobs[a].kind # "none" /\ jobs[a].created_at = h[i].created_at)
                            => jobs[a].status \notin {"pending", "processing"}
                /\ \A i \in 1..Len(h), k \in 1..Len(h) :
                      i < k => h[i].created_at < h[k].created_at]_vars

\* a message task is in its call with two turns in its history, a file among
\* them, while another job waits
C28_Witness ==
    \E b \in message_jobs :
        /\ tasks[b].pc = "running"
        /\ Len(tasks[b].orch.req.chat_history) = 2
        /\ \E i \in 1..2 : tasks[b].orch.req.chat_history[i].type = "file"

\* C27: every upload of more than MAX_FILE_SIZE bytes is rejected and creates
\* no job, whatever size the upload object reports when it is validated.
C27_LargeRejected ==
    [][\A u \in RouteUploads :
          (u.content_len > MAX_FILE_SIZE /\ UploadFile(u))
          => (/\ response'.status >= 400
              /\ UNCHANGED <<jobs, file_jobs, tasks, uploads>>)]_vars

(***************************************************************************)
(* Properties of the interleaving of the tasks.                            *)
(***************************************************************************)
\* job j's task makes a provider attempt in this step
AttemptMade(j) == Len(tasks'[j].orch.log) > Len(tasks[j].orch.log)

\* C29: a task is suspended at the UX delay, at each provider call and at
\* each retry delay, so that other tasks run while its provider call is in
\* flight: a provider attempt ends in a step of its own, which begins with the
\* task suspended at that call (and not at a delay).
C29_CallSuspends ==
    [][\A j \in JobIds :
          AttemptMade(j) => tasks[j].orch.phase \notin {"ux_delay", "backoff"}]_vars

(***************************************************************************)
(* Properties of the handling of failed provider attempts.                 *)
(***************************************************************************)
\* the ways a provider attempt fails: the request raises, the reply is not a
\* 200, or the reply is a 200 whose body carries no output text
FailedKinds == {"transport", "status", "no_output"}

\* the attempts the call makes in this step
NewAttempts == (Len(call.log) + 1)..Len(call'.log)

\* C30: an attempt that ends in a transport failure, in a non-success status
\* or in a reply without the output text counts as failed, whichever provider
\* made it (and so is retried, and falls through after the last retry).
C30_FailuresAlike ==
    [][\A outG \in Outcomes, outD \in Outcomes :
          ResumeCall(outG, outD) =>
              \A i \in NewAttempts :
                  /\ (call'.log[i].provider = "gemini" /\ outG.kind \in FailedKinds)
                        => ~call'.log[i].ok
                  /\ (call'.log[i].provider = "deepai" /\ outD.kind \in FailedKinds)
                        => ~call'.log[i].ok]_vars

(***************************************************************************)
(* Properties of the selection of the context optimizer.                   *)
(***************************************************************************)
\* C31: the items optimize_context returns are in the order they have in the
\* history (the turns of a history are numbered by created_at).
C31_OrderKept ==
    Returned =>
        \A i \in 1..Len(ctx.out[1].optimized_context) :
            \A k \in 1..Len(ctx.out[1].optimized_context) :
                i < k => ctx.out[1].optimized_context[i].created_at
                            < ctx.out[1].optimized_context[k].created_at

\* the items outside the last 3, by falling score
OlderByScore(messages) ==
    SelectSeq(SortedIndexes(messages), LAMBDA i : i <= Len(messages) - 3)

\* the 5 highest-scoring items among those outside the last 3
TopOlder(messages) ==
    {messages[OlderByScore(messages)[r]] :
        r \in 1..Min(5, Len(OlderByScore(messages)))}

\* a call whose budgets cut nothing: the selection is returned as it is
NothingCut ==
    /\ Returned
    /\ TotalLength(ctx.messages) <= ctx.self.max_context_length
    /\ ctx.self.max_messages >= Len(ctx.messages)

\* C32: the selection is the last 3 items together with the 5 highest-scoring
\* items among those outside the last 3 (8 items when the history holds 8 or
\* more).
C32_Selection ==
    NothingCut =>
        /\ Items(ctx.out[1].optimized_context)
              = Items(LastItems(ctx.messages, 3)) \cup TopOlder(ctx.messages)
        /\ Len(ctx.messages) >= 8 => Len(ctx.out[1].optimized_context) = 8

\* the length budget cuts the selection and the count budget cuts nothing
LengthTrimmed ==
    /\ Returned
    /\ ctx.messages # <<>>
    /\ TotalLength(SelectedMessages(ctx.messages)) > ctx.self.max_context_length
    /\ ctx.self.max_messages >= Len(SelectedMessages(ctx.messages))

\* C33: the length trim discards the oldest selected items first: no
\* discarded item is newer than a kept item.
C33_OldestDiscarded ==
    LengthTrimmed =>
        \A d \in Items(SelectedMessages(ctx.messages)) \ Items(ctx.out[1].optimized_context) :
            \A k \in Items(ctx.out[1].optimized_context) :
                d.created_at < k.created_at

\* C34: when the length trim runs and at least one selected item is within
\* the length budget on its own (even with the current message counted), the
\* returned selection is not empty.
C34_NotEmptied ==
    (/\ Returned
     /\ ctx.messages # <<>>
     /\ TotalLength(SelectedMessages(ctx.messages)) > ctx.self.max_context_length
     /\ \E m \in Items(SelectedMessages(ctx.messages)) :
            ItemLength(m) + Len(ctx.current_message) <= ctx.self.max_context_length)
    => ctx.out[1].optimized_context # <<>>

\* C35: of two items of a history with the same text, the later one receives
\* the strictly higher score.
C35_LaterScoresHigher ==
    Returned =>
        \A i \in 1..Len(ctx.messages) : \A k \in 1..Len(ctx.messages) :
            (/\ i < k
             /\ ctx.messages[i].user_message = ctx.messages[k].user_message
             /\ ctx.messages[i].ai_response = ctx.messages[k].ai_response)
            => _calculate_message_score(ctx.messages[k], k - 1, Len(ctx.messages))
                  > _calculate_message_score(ctx.messages[i], i - 1, Len(ctx.messages))

\* the characters of an item's text, the analysis text of a file item included
TextLength(item) ==
    ItemLength(item) + (IF item.type = "file" THEN Len(item.analysis_result) ELSE 0)

RECURSIVE TotalTextLength(_)
TotalTextLength(messages) ==
    IF messages = <<>> THEN 0
    ELSE TextLength(Head(messages)) + TotalTextLength(Tail(messages))

\* C36: the analysis text of a file item counts toward the length budget, so
\* the text of a returned selection, analysis texts included, is within
\* max_context_length characters.
C36_AnalysisCounted ==
    Returned =>
        TotalTextLength(ctx.out[1].optimized_context) <= ctx.self.max_context_length

(***************************************************************************)
(* Properties of the frame of the orchestrator and of the file release.    *)
(***************************************************************************)
\* C37: a step of job j's task inside its orchestrator call (the task was
\* suspended in get_ai_response / get_file_analysis) leaves the sets of
\* stored ids and every other job as they were, and leaves job j as it was
\* too unless the call is over and the task commits; a stored job's result
\* changes only in a step of its own task.
C37_OrchestratorFrame ==
    [][\A j \in JobIds :
          /\ (tasks[j].pc = "running" /\ tasks'[j] # tasks[j]) =>
                /\ message_jobs' = message_jobs
                /\ file_jobs' = file_jobs
                /\ \A k \in JobIds \ {j} : jobs'[k] = jobs[k]
                /\ tasks'[j].pc = "running" => jobs' = jobs
          /\ (j \in Stored /\ j \in Stored' /\ jobs'[j].result # jobs[j].result) =>
                tasks'[j] # tasks[j]]_vars

\* a task is between two provider attempts of its call while another job is
\* stored and Done
C37_Witness ==
    \E j \in JobIds : \E k \in JobIds \ {j} :
        /\ tasks[j].pc = "running"
        /\ tasks[j].orch.phase = "backoff"
        /\ Len(tasks[j].orch.log) > 0
        /\ k \in Stored
        /\ jobs[k].status = "done"

\* C38: a failing unlink in _cleanup_file changes no outcome: the file task
\* that commits an analysis ends normally with its stored job Done and the
\* analysis as result, and delete and clear remove the jobs and answer 200.
C38_CleanupSwallowed ==
    [][/\ \A j \in JobIds :
             /\ (\E outG \in JobOutcomes, outD \in JobOutcomes :
                    ResumeFileTask(j, outG, outD, TRUE)) =>
                   /\ tasks'[j] = FinishedTask
                   /\ raised'[j] = raised[j]
                   /\ j \in file_jobs =>
                         /\ jobs'[j].status = "done"
                         /\ jobs'[j].result # None
                         /\ jobs'[j].completed_at # None
             /\ (j \in file_jobs /\ DeleteJob(j, TRUE)) =>
                   /\ j \notin Stored'
                   /\ response' = Success
       /\ \A failing \in SUBSET (file_jobs \cap uploads) :
             (failing # {} /\ ClearAllChat(failing)) =>
                 /\ Stored' = {}
                 /\ response' = Success]_vars

\* a file job is Done with its file still in the upload directory after the
\* cleanup was called for it, and a file job was removed with its file left
C38_Witness ==
    /\ \E j \in file_jobs :
          /\ jobs[j].status = "done"
          /\ j \in released
          /\ j \in uploads
    /\ \E k \in JobIds :
          /\ removed[k] # ""
          /\ k \in released
          /\ k \in uploads

(***************************************************************************)
(* Properties of the /test routes.                                         *)
(***************************************************************************)
\* C39: once every invocation of the /test routes has returned, the two
\* provider keys of Config hold the values they had at startup.
C39_KeysRestored ==
    (\A p \in ProbeIds : probes[p].pc \in {"idle", "returned"}) =>
        keys = StartupKeys(cfg)

====
